---------------------------- MODULE Spec2Model ----------------------------
(***************************************************************************)
(* A model of pkg/storage/replica_send.go: Replica.Send, its dispatch to   *)
(* the read-only, read-write and admin paths, and the concurrency retry    *)
(* loop executeBatchWithConcurrencyRetries with its four conflict          *)
(* handlers.                                                               *)
(*                                                                         *)
(* Each caller of Send is a process.  A process's pc is its position in    *)
(* the code; a call is cut into steps at the points where the code calls   *)
(* out to a collaborator that may block (the latch manager, the executor,  *)
(* the intent resolver, the commit recovery manager, the merge channel)    *)
(* so that other callers, cancellation and range events interleave there.  *)
(* The collaborators themselves (roachpb, spanlatch, txnwait,              *)
(* intentresolver, the two executors) live outside replica_send.go and are *)
(* modelled by their contracts.                                            *)
(***************************************************************************)
EXTENDS Integers, Sequences, FiniteSets, TLC

(***************************************************************************)
(* Bounds.                                                                 *)
(***************************************************************************)
\* Conflict errors the executor may report to one call (the loop itself has
\* no cap on retries): after that many, an attempt ends in a response or in
\* an error the loop does not retry.
MaxConflicts == 2
\* The same, for each of two concurrent callers.
MaxConflictsConc == 1

\* Timestamps are 1..MaxTs; 0 stands for no timestamp.
MaxTs == 3

Procs == {1, 2}

\* Keys are 1 and 2.  BadKey is a key no command may declare: a span over it
\* fails SpanSet.Validate.
BadKey == 0

VARIABLES
  ba,         \* ba[p]: the BatchRequest of caller p
  knobs,      \* r.store.cfg.TestingKnobs (the three handler knobs)
  pc,         \* pc[p]: position of caller p
  ctxDone,    \* ctxDone[p]: ctx.Err() # nil for caller p
  spans,      \* spans[p]: the span set collectSpans returned
  br,         \* br[p]: the *BatchResponse in hand / returned
  pErr,       \* pErr[p]: the *roachpb.Error in hand / returned
  cleanup,    \* cleanup[p]: 0 (nil) or the index in fin[p] of the handle held
  fin,        \* fin[p][h]: how handle h of caller p was finalized
  lg,         \* lg[p]: number of latch guards caller p holds
  nExec,      \* nExec[p]: executor invocations of this call
  budget,     \* budget[p]: conflicts the executor may still report to p
  path,       \* path[p]: the dispatcher's branch
  merging,    \* the range has a merge in progress (mergeComplete # nil)
  mergeCh,    \* mergeCh[p]: the channel handleMergeInProgressError read
  quiescing,  \* r.store.stopper.ShouldQuiesce() is closed
  twq,        \* the pushee is enqueued on the txnWaitQueue
  pusheeDone, \* the pushee transaction's record was updated (finalized)
  granted,    \* callers granted a guard whose executor has not begun, in order
  overtaken,  \* history: an executor began before an earlier-granted conflicting one
  staleCtx,   \* history: ctx.Err() was non-nil at the top of this iteration
  cancelAt,   \* history: where caller p was when its ctx was cancelled
  resolved,   \* what conflict resolution reported to p before this iteration
              \* ("mergeGone": the merge channel was nil)
  nAcq,       \* history: nAcq[p], latch guards granted to caller p
  nRel,       \* history: nRel[p], latch guards of caller p released
  adminSteps, \* history: adminSteps[p], what executeAdminBatch called, in order
  oneWIE,     \* history: oneWIE[p], p's only conflict so far is one WriteIntentError,
              \* which the resolver resolved without error
  txns,       \* the roachpb.Transaction records in memory, by address (1..Len)
  header,     \* ba.Header of the call under study: Timestamp and Txn (an address, 0 = nil)
  pushHdr,    \* the header and push type handleWriteIntentError hands to the resolver
  hpc,        \* where the call under study is with respect to its header
  gateway,    \* gateway[p]: r.leaseholderStats # nil and ba.Header.GatewayNodeID # 0
  recorded,   \* history: recorded[p], the load records made for p's batch
  preSteps,   \* history: preSteps[p], the pre-execution steps Send asked, in order
  respFilter, \* history: respFilter[p], what became of the TestingResponseFilter
  leaseSt     \* history: the lease status limitTxnMaxTimestamp was called under

vars == <<ba, knobs, pc, ctxDone, spans, br, pErr, cleanup, fin, lg, nExec,
          budget, path, merging, mergeCh, quiescing, twq, pusheeDone, granted,
          overtaken, staleCtx, cancelAt, resolved, nAcq, nRel, adminSteps,
          oneWIE, txns, header, pushHdr, hpc, gateway, recorded, preSteps,
          respFilter, leaseSt>>

(***************************************************************************)
(* roachpb: requests, batches, errors, responses.                          *)
(***************************************************************************)
AdminMethods == {"AdminSplit", "AdminUnsplit", "AdminMerge",
                 "AdminTransferLease", "AdminChangeReplicas",
                 "AdminRelocateRange", "CheckConsistency", "Import",
                 "AdminScatter"}

\* Request flags (roachpb/api.go).  "AdminVerify" stands for an admin-flagged
\* request executeAdminBatch has no case for, "Noop" for a method batcheval
\* has no command for.
ReadMethods == {"Get", "QueryTxn", "Noop"}
WriteMethods == {"Put", "PushTxn"}
AdminFlagged == AdminMethods \cup {"AdminVerify"}

isRead(m) == m \in ReadMethods
isWrite(m) == m \in WriteMethods
isAdmin(m) == m \in AdminFlagged

\* A request: its method, its key, and (for PushTxn) whether
\* txnwait.ShouldPushImmediately holds of it.
Req(m, k) == [m |-> m, key |-> k, imm |-> FALSE]
PushReq(k, imm) == [m |-> "PushTxn", key |-> k, imm |-> imm]

Batch(reqs, txn, ts, cons) ==
  [reqs |-> reqs, txn |-> txn, ts |-> ts, cons |-> cons]

\* BatchRequest.hasFlag: some request of the batch carries the flag.
hasFlag(b, flagged) == \E i \in 1..Len(b.reqs) : b.reqs[i].m \in flagged

\* BatchRequest.IsReadOnly: non-empty and no request is a write or admin.
IsReadOnly(b) ==
  Len(b.reqs) > 0 /\ ~hasFlag(b, WriteMethods) /\ ~hasFlag(b, AdminFlagged)
\* BatchRequest.IsWrite / IsAdmin: some request carries the flag.
IsWrite(b) == hasFlag(b, WriteMethods)
IsAdmin(b) == hasFlag(b, AdminFlagged)
IsSinglePushTxnRequest(b)  == Len(b.reqs) = 1 /\ b.reqs[1].m = "PushTxn"
IsSingleQueryTxnRequest(b) == Len(b.reqs) = 1 /\ b.reqs[1].m = "QueryTxn"

\* Some request of the batch only reads and some request writes.
IsMixed(b) ==
  /\ \E i \in 1..Len(b.reqs) : isRead(b.reqs[i].m) /\ ~isWrite(b.reqs[i].m)
  /\ \E i \in 1..Len(b.reqs) : isWrite(b.reqs[i].m)

\* A *roachpb.Error: its detail kind, its Index, and (history) who built it.
NoErr == [kind |-> "nil", index |-> 0, origin |-> "none"]
Err(kind, index, origin) == [kind |-> kind, index |-> index, origin |-> origin]

\* Error.GetDetail is nil exactly for a nil *Error: an error without a
\* structured detail yields its generic internalError.
GetDetail(e) == e.kind

ConflictKinds == {"WriteIntentError", "TransactionPushError",
                  "IndeterminateCommitError", "MergeInProgressError"}

\* A *roachpb.BatchResponse: nil, or a response with its Txn snapshot's
\* status ("nil" when the response carries no Txn).
NoBr == [set |-> FALSE, txn |-> "nil", from |-> "none"]
Resp(txn, from) == [set |-> TRUE, txn |-> txn, from |-> from]

\* TransactionStatus.IsFinalized
IsFinalized(st) == st \in {"COMMITTED", "ABORTED"}

(***************************************************************************)
(* checkBatchRequest, collectSpans and the span latches.                   *)
(***************************************************************************)
\* checkBatchRequest without lines 498-500: a batch that is not read-only
\* is accepted whatever its read consistency.
checkBatchRequest_ReadsOnly(b, isReadOnly) ==
  IF b.ts = 0
    THEN Err("Plain", 0, "checkBatchRequest")
    ELSE IF isReadOnly /\ b.cons # "CONSISTENT" /\ b.txn
           THEN Err("Plain", 0, "checkBatchRequest")
           ELSE NoErr

checkBatchRequest(b, isReadOnly) ==
  IF b.ts = 0
    THEN Err("Plain", 0, "checkBatchRequest")
    ELSE LET consistent == b.cons = "CONSISTENT" IN
         IF isReadOnly
           THEN IF ~consistent /\ b.txn
                  THEN Err("Plain", 0, "checkBatchRequest")
                  ELSE NoErr
           ELSE IF ~consistent
                  THEN Err("Plain", 0, "checkBatchRequest")
                  ELSE NoErr

Span(k, access, scope) == [key |-> k, access |-> access, scope |-> scope]

\* batcheval.DeclareKeysForBatch: every batch reads the range descriptor.
DeclareKeysForBatch == {Span(1, "RO", "local")}

\* DefaultDeclareKeys: a read-only request declares a read span over its key,
\* every other request a write span.
DeclareKeys(r) ==
  Span(r.key, IF isRead(r.m) /\ ~isWrite(r.m) THEN "RO" ELSE "RW", "global")

\* Methods batcheval.LookupCommand knows no command for: the admin requests
\* are not evaluated through batcheval.
NoCommand == {"Noop"} \cup AdminFlagged

\* collectSpans with every span declared read-only: the access mode the
\* commands declare is lost.
collectSpans_ReadOnly(b) ==
  LET n == Len(b.reqs)
      declared == DeclareKeysForBatch
                    \cup {Span(b.reqs[i].key, "RO", "global") : i \in 1..n}
  IN IF \E i \in 1..n : b.reqs[i].m \in NoCommand
       THEN [ok |-> FALSE, set |-> {}]
       ELSE IF \E s \in declared : s.key = BadKey
              THEN [ok |-> FALSE, set |-> {}]
              ELSE [ok |-> TRUE, set |-> declared]

\* The spans of the batch as a set (SortAndDedup), or the error of an
\* unrecognized command or of SpanSet.Validate.
collectSpans(b) ==
  LET n == Len(b.reqs)
      declared == DeclareKeysForBatch \cup {DeclareKeys(b.reqs[i]) : i \in 1..n}
  IN IF \E i \in 1..n : b.reqs[i].m \in NoCommand
       THEN [ok |-> FALSE, set |-> {}]
       ELSE IF \E s \in declared : s.key = BadKey
              THEN [ok |-> FALSE, set |-> {}]
              ELSE [ok |-> TRUE, set |-> declared]

\* Two span sets conflict when they overlap and one of the accesses writes.
Conflicts(S, T) ==
  \E s \in S, t \in T :
     s.key = t.key /\ s.scope = t.scope /\ (s.access = "RW" \/ t.access = "RW")

\* Two batches touch a common key and one of them writes it.
BatchesConflict(b, c) ==
  \E i \in 1..Len(b.reqs), j \in 1..Len(c.reqs) :
     /\ b.reqs[i].key = c.reqs[j].key
     /\ (isWrite(b.reqs[i].m) \/ isWrite(c.reqs[j].m))

\* The sequence without its first occurrence of x.
RemoveFirst(seq, x) ==
  LET idx == {i \in 1..Len(seq) : seq[i] = x}
  IN IF idx = {} THEN seq
     ELSE LET k == CHOOSE i \in idx : \A j \in idx : i <= j
          IN [i \in 1..(Len(seq) - 1) |-> IF i < k THEN seq[i] ELSE seq[i + 1]]

\* spanlatch.Manager.Acquire grants a guard once no other caller holds a
\* guard over conflicting spans.
CanAcquire(p) ==
  \A q \in Procs \ {p} : lg[q] > 0 => ~Conflicts(spans[p], spans[q])

(***************************************************************************)
(* Cleanup handles.  fin[p] lists the handles the intent resolver gave     *)
(* caller p, each "held" or the arguments it was finalized with:           *)
(* "wie" for cleanup(t, nil), "txn" for cleanup(nil, &br.Txn.TxnMeta),     *)
(* "nil" for cleanup(nil, nil), "twice" once it is called a second time.   *)
(***************************************************************************)
Finalize(f, h, how) ==
  IF h = 0 THEN f
  ELSE [f EXCEPT ![h] = IF @ = "held" THEN how ELSE "twice"]

(***************************************************************************)
(* Inputs.                                                                 *)
(***************************************************************************)
\* Request lists a caller may send.  PushTxn and QueryTxn travel alone.
DataReqs == {<<Req("Get", 1)>>, <<Req("Put", 1)>>, <<Req("Put", 2)>>,
             <<Req("Get", 1), Req("Put", 2)>>}
TxnQueueReqs == {<<PushReq(1, FALSE)>>, <<PushReq(1, TRUE)>>,
                 <<Req("QueryTxn", 1)>>}
OddReqs == {<< >>, <<Req("Noop", 1)>>, <<Req("Put", BadKey)>>,
            <<Req("AdminSplit", 1)>>, <<Req("AdminVerify", 1)>>,
            <<Req("AdminSplit", 1), Req("AdminMerge", 2)>>,
            <<Req("Put", 1), Req("AdminSplit", 1)>>,
            <<Req("Get", 1), Req("AdminSplit", 1)>>}

\* Send takes any batch: pushes and queries of another transaction's
\* record come with a Txn in their header or without one.
SendBatches ==
  {Batch(r, t, ts, c) : r \in DataReqs \cup OddReqs, t \in BOOLEAN,
                        ts \in {0, 1}, c \in {"CONSISTENT", "INCONSISTENT"}}
  \cup {Batch(r, t, 1, "CONSISTENT") : r \in TxnQueueReqs, t \in BOOLEAN}

\* Pairs of batches for two concurrent callers: writes of one key, a write
\* and a read of one key, reads of one key, writes of two keys, a push
\* beside a write, and a write beside an admin batch.
PutTxn1 == Batch(<<Req("Put", 1)>>, TRUE, 1, "CONSISTENT")
Put1 == Batch(<<Req("Put", 1)>>, FALSE, 1, "CONSISTENT")
Put2 == Batch(<<Req("Put", 2)>>, FALSE, 1, "CONSISTENT")
Get1 == Batch(<<Req("Get", 1)>>, FALSE, 1, "CONSISTENT")
Push1 == Batch(<<PushReq(1, FALSE)>>, FALSE, 1, "CONSISTENT")
Split1 == Batch(<<Req("AdminSplit", 1)>>, FALSE, 1, "CONSISTENT")
ConcPairs == {<<PutTxn1, Put1>>, <<PutTxn1, Get1>>, <<Get1, Get1>>,
              <<PutTxn1, Put2>>, <<Push1, Put2>>, <<Put1, Split1>>}

IdleBatch == Batch(<< >>, FALSE, 0, "CONSISTENT")

KnobConfigs ==
  [dontPush : BOOLEAN, dontRetryPush : BOOLEAN, dontRecover : BOOLEAN]
NoKnobs ==
  [dontPush |-> FALSE, dontRetryPush |-> FALSE, dontRecover |-> FALSE]

\* No lease status was looked at.
NoLease == [valid |-> FALSE, start |-> 0]

InitRest ==
  /\ ctxDone = [p \in Procs |-> FALSE]
  /\ spans = [p \in Procs |-> {}]
  /\ br = [p \in Procs |-> NoBr]
  /\ pErr = [p \in Procs |-> NoErr]
  /\ cleanup = [p \in Procs |-> 0]
  /\ fin = [p \in Procs |-> << >>]
  /\ lg = [p \in Procs |-> 0]
  /\ nExec = [p \in Procs |-> 0]
  /\ path = [p \in Procs |-> "none"]
  /\ merging \in BOOLEAN
  /\ mergeCh = [p \in Procs |-> "none"]
  /\ quiescing = FALSE
  /\ twq = FALSE
  /\ pusheeDone = FALSE
  /\ granted = << >>
  /\ overtaken = FALSE
  /\ staleCtx = [p \in Procs |-> FALSE]
  /\ cancelAt = [p \in Procs |-> "none"]
  /\ resolved = [p \in Procs |-> "none"]
  /\ nAcq = [p \in Procs |-> 0]
  /\ nRel = [p \in Procs |-> 0]
  /\ adminSteps = [p \in Procs |-> << >>]
  /\ oneWIE = [p \in Procs |-> FALSE]
  /\ recorded = [p \in Procs |-> {}]
  /\ preSteps = [p \in Procs |-> << >>]
  /\ respFilter = [p \in Procs |-> "none"]
  /\ leaseSt = NoLease

(***************************************************************************)
(* Batch headers and transaction records.  A header holds a Timestamp by   *)
(* value and its Txn by pointer; txns is the memory the pointers lead to,  *)
(* so that a write through a pointer another caller may hold shows.        *)
(***************************************************************************)
\* hlc.Timestamp.Forward, Backward and Less.
Forward(t, u) == IF t < u THEN u ELSE t
Backward(t, u) == IF u < t THEN u ELSE t
Less(t, u) == t < u

\* A roachpb.Transaction: ReadTimestamp, MaxTimestamp and the timestamp
\* observed from the replica's node (0: none observed).
TxnRecord(ts, max, obs) == [ts |-> ts, max |-> max, obs |-> obs]

\* Transaction.Clone: a copy at a fresh address, the last one of the result.
Clone(heap, a) == Append(heap, heap[a])

NoHdr == [ts |-> 0, txn |-> 0, pushType |-> "none"]

\* The main specifications follow no header.
HeaderIdle ==
  /\ txns = << >>
  /\ header = [ts |-> 0, txn |-> 0]
  /\ pushHdr = NoHdr
  /\ hpc = "off"

\* limitTxnMaxTimestamp writing MaxTimestamp through ba.Txn, without the
\* clone.
limitTxnMaxTimestamp_InPlace(h, heap, valid, start) ==
  IF h.txn = 0 THEN [header |-> h, txns |-> heap]
  ELSE IF heap[h.txn].obs = 0 THEN [header |-> h, txns |-> heap]
  ELSE LET obsTS == IF valid THEN Forward(heap[h.txn].obs, start)
                             ELSE heap[h.txn].obs
       IN IF Less(obsTS, heap[h.txn].max)
            THEN [header |-> h,
                  txns |-> [heap EXCEPT ![h.txn].max = Backward(@, obsTS)]]
            ELSE [header |-> h, txns |-> heap]

\* limitTxnMaxTimestamp without lines 600-602: the observed timestamp is
\* not forwarded to the start of the lease.
limitTxnMaxTimestamp_IgnoresLease(h, heap, valid, start) ==
  IF h.txn = 0 THEN [header |-> h, txns |-> heap]
  ELSE IF heap[h.txn].obs = 0 THEN [header |-> h, txns |-> heap]
  ELSE LET obsTS == heap[h.txn].obs
       IN IF Less(obsTS, heap[h.txn].max)
            THEN LET cloned == Clone(heap, h.txn)
                     txnClone == Len(cloned)
                 IN [header |-> [h EXCEPT !.txn = txnClone],
                     txns |-> [cloned EXCEPT ![txnClone].max =
                                                Backward(@, obsTS)]]
            ELSE [header |-> h, txns |-> heap]

\* limitTxnMaxTimestamp (lines 581-613) on header h over the records heap,
\* for a lease that is valid or not and starts at start: the header and the
\* records afterwards.
limitTxnMaxTimestamp(h, heap, valid, start) ==
  IF h.txn = 0 THEN [header |-> h, txns |-> heap]
  ELSE IF heap[h.txn].obs = 0 THEN [header |-> h, txns |-> heap]
  ELSE LET obsTS == IF valid THEN Forward(heap[h.txn].obs, start)
                             ELSE heap[h.txn].obs
       IN IF Less(obsTS, heap[h.txn].max)
            THEN LET cloned == Clone(heap, h.txn)
                     txnClone == Len(cloned)
                 IN [header |-> [h EXCEPT !.txn = txnClone],
                     txns |-> [cloned EXCEPT ![txnClone].max =
                                                Backward(@, obsTS)]]
            ELSE [header |-> h, txns |-> heap]

\* handleWriteIntentError without line 266: the header's timestamp is handed
\* over as it is.
pushHeader_NoForward(b, h, heap) ==
  LET pushType == IF IsWrite(b) THEN "PUSH_ABORT" ELSE "PUSH_TIMESTAMP"
  IN IF h.txn = 0
       THEN [ok |-> TRUE, txns |-> heap,
             h |-> [ts |-> h.ts, txn |-> 0, pushType |-> pushType]]
     ELSE IF heap[h.txn].obs = 0
       THEN [ok |-> FALSE, txns |-> heap, h |-> NoHdr]
     ELSE LET cloned == Clone(heap, h.txn)
          IN [ok |-> TRUE, txns |-> cloned,
              h |-> [ts |-> h.ts, txn |-> Len(cloned),
                     pushType |-> pushType]]

\* handleWriteIntentError, lines 243-274: the push type and the copy h of
\* the header it prepares for the resolver.  ok is FALSE where the code
\* calls log.Fatalf (no observed timestamp).
pushHeader(b, h, heap) ==
  LET pushType == IF IsWrite(b) THEN "PUSH_ABORT" ELSE "PUSH_TIMESTAMP"
  IN IF h.txn = 0
       THEN [ok |-> TRUE, txns |-> heap,
             h |-> [ts |-> h.ts, txn |-> 0, pushType |-> pushType]]
     ELSE IF heap[h.txn].obs = 0
       THEN [ok |-> FALSE, txns |-> heap, h |-> NoHdr]
     ELSE LET cloned == Clone(heap, h.txn)
          IN [ok |-> TRUE, txns |-> cloned,
              h |-> [ts |-> Forward(h.ts, heap[h.txn].obs),
                     txn |-> Len(cloned), pushType |-> pushType]]

\* The call under study: a read or a write of one key, in a transaction or
\* not, with any header timestamp; its transaction record, when it has one,
\* lies at address 1, where other callers may hold it too.
HeaderBatches ==
  {Batch(r, t, 1, "CONSISTENT") :
     r \in {<<Req("Get", 1)>>, <<Req("Put", 1)>>}, t \in BOOLEAN}

InitHeader ==
  /\ \E b \in HeaderBatches :
       /\ ba = [p \in Procs |-> IF p = 1 THEN b ELSE IdleBatch]
       /\ \E ts \in 1..MaxTs : header = [ts |-> ts, txn |-> IF b.txn THEN 1 ELSE 0]
       /\ IF b.txn
            THEN \E rts \in 1..MaxTs, max \in 1..MaxTs, obs \in 0..MaxTs :
                   /\ rts <= max
                   /\ txns = <<TxnRecord(rts, max, obs)>>
            ELSE txns = << >>
  /\ pushHdr = NoHdr
  /\ hpc = "entry"
  /\ knobs = NoKnobs
  /\ pc = [p \in Procs |-> "off"]
  /\ budget = [p \in Procs |-> 0]
  /\ gateway = [p \in Procs |-> FALSE]
  /\ InitRest
  /\ ~merging

\* One caller, every batch and every knob configuration.
Init ==
  /\ \E b \in SendBatches : ba = [p \in Procs |-> IF p = 1 THEN b ELSE IdleBatch]
  /\ knobs \in KnobConfigs
  /\ pc = [p \in Procs |-> IF p = 1 THEN "send" ELSE "off"]
  /\ budget = [p \in Procs |-> MaxConflicts]
  /\ \E g \in BOOLEAN : gateway = [p \in Procs |-> p = 1 /\ g]
  /\ InitRest
  /\ HeaderIdle

\* Two concurrent callers; the executor may report conflicts to caller 2
\* as well (both) or to caller 1 only.
ConcInit(both) ==
  /\ \E pr \in ConcPairs : ba = [p \in Procs |-> pr[p]]
  /\ knobs = NoKnobs
  /\ pc = [p \in Procs |-> "send"]
  /\ budget = [p \in Procs |-> IF p = 1 \/ both THEN MaxConflictsConc ELSE 0]
  /\ gateway = [p \in Procs |-> TRUE]
  /\ InitRest
  /\ HeaderIdle

InitConc == ConcInit(TRUE)

InitFair == ConcInit(FALSE)

(***************************************************************************)
(* Send: validation, pre-execution steps and dispatch (lines 51-110).      *)
(***************************************************************************)
\* What maybeBackpressureBatch, maybeStripInFlightWrites and the
\* TestingRequestFilter may report, in the order the code asks them.
PreOutcomes == {"ok", "backpressure", "strip", "requestFilter"}

\* The dispatcher without its last two branches: whatever is neither a
\* write nor read-only is handed to the admin executor.
Dispatch_NoFatal(b) ==
  LET isReadOnly == IsReadOnly(b)
      useRaft == ~isReadOnly /\ IsWrite(b)
  IN IF useRaft THEN "write"
     ELSE IF isReadOnly THEN "read"
     ELSE "admin"

\* The dispatcher with the admin test first.
Dispatch_AdminFirst(b) ==
  LET isReadOnly == IsReadOnly(b)
      useRaft == ~isReadOnly /\ IsWrite(b)
  IN IF IsAdmin(b) THEN "admin"
     ELSE IF useRaft THEN "write"
     ELSE IF isReadOnly THEN "read"
     ELSE "fatal"

\* The dispatcher's branch for a batch (lines 67-68, 92-110).
Dispatch(b) ==
  LET isReadOnly == IsReadOnly(b)
      useRaft == ~isReadOnly /\ IsWrite(b)
  IN IF useRaft THEN "write"
     ELSE IF isReadOnly THEN "read"
     ELSE IF IsAdmin(b) THEN "admin"
     ELSE "fatal"

\* The pre-execution steps in the order the code asks them (lines 70-88).
PreOrder == <<"checkBatchRequest", "backpressure", "strip", "requestFilter">>

\* Send asking the TestingRequestFilter before maybeBackpressureBatch.
PreExecution_FilterFirst(b, fails) ==
  LET verr == checkBatchRequest(b, IsReadOnly(b))
  IN IF verr # NoErr
       THEN [steps |-> <<"checkBatchRequest">>, pErr |-> verr]
     ELSE IF "requestFilter" \in fails
       THEN [steps |-> <<"checkBatchRequest", "requestFilter">>,
             pErr |-> Err("Plain", 0, "requestFilter")]
     ELSE IF "backpressure" \in fails
       THEN [steps |-> <<"checkBatchRequest", "requestFilter", "backpressure">>,
             pErr |-> Err("Plain", 0, "backpressure")]
     ELSE IF "strip" \in fails
       THEN [steps |-> <<"checkBatchRequest", "requestFilter", "backpressure",
                         "strip">>,
             pErr |-> Err("Plain", 0, "strip")]
     ELSE [steps |-> <<"checkBatchRequest", "requestFilter", "backpressure",
                       "strip">>,
           pErr |-> NoErr]

\* Lines 70-88: validation, backpressure, in-flight-write stripping and
\* the request filter, each returning its error at once.  fails holds the
\* steps that report an error when asked; a filter that is not installed
\* reports none.
PreExecution(b, fails) ==
  LET verr == checkBatchRequest(b, IsReadOnly(b))
  IN IF verr # NoErr
       THEN [steps |-> SubSeq(PreOrder, 1, 1), pErr |-> verr]
     ELSE IF "backpressure" \in fails
       THEN [steps |-> SubSeq(PreOrder, 1, 2),
             pErr |-> Err("Plain", 0, "backpressure")]
     ELSE IF "strip" \in fails
       THEN [steps |-> SubSeq(PreOrder, 1, 3),
             pErr |-> Err("Plain", 0, "strip")]
     ELSE IF "requestFilter" \in fails
       THEN [steps |-> PreOrder, pErr |-> Err("Plain", 0, "requestFilter")]
     ELSE [steps |-> PreOrder, pErr |-> NoErr]

\* Lines 55-57: the gateway's load is recorded at entry, when the replica
\* keeps leaseholder statistics and the batch names its gateway node.
recordGateway(p) == IF gateway[p] THEN {"gateway"} ELSE {}

Send(p) ==
  /\ pc[p] = "send"
  /\ recorded' = [recorded EXCEPT ![p] = recordGateway(p)]
  /\ LET b == ba[p] IN
       \E fails \in SUBSET (PreOutcomes \ {"ok"}) :
         LET o == PreExecution(b, fails) IN
           /\ preSteps' = [preSteps EXCEPT ![p] = o.steps]
           /\ pErr' = [pErr EXCEPT ![p] = o.pErr]
           /\ IF o.pErr # NoErr
                THEN /\ pc' = [pc EXCEPT ![p] = "done"]
                     /\ path' = path
                ELSE /\ path' = [path EXCEPT ![p] = Dispatch(b)]
                     /\ pc' = [pc EXCEPT ![p] =
                                 CASE Dispatch(b) \in {"write", "read"} -> "loop"
                                   [] Dispatch(b) = "admin" -> "admin"
                                   [] OTHER -> "fatal"]
  /\ UNCHANGED <<ba, knobs, gateway, leaseSt, respFilter, txns, header, pushHdr, hpc, oneWIE, adminSteps, nAcq, nRel, budget, ctxDone, spans, br, cleanup, fin, lg, nExec,
                 merging, mergeCh, quiescing, twq, pusheeDone, granted,
                 overtaken, staleCtx, cancelAt, resolved>>

\* The loop without lines 151-153: the error of collectSpans is dropped and
\* the loop runs over the span set it was handed, an empty one.
LoopEnter_IgnoresError(p) ==
  /\ pc[p] = "loop"
  /\ LET cs == collectSpans(ba[p]) IN
       /\ spans' = [spans EXCEPT ![p] = cs.set]
       /\ pc' = [pc EXCEPT ![p] = "top"]
       /\ pErr' = pErr
       /\ recorded' = [recorded EXCEPT ![p] = @ \cup {"split"}]
  /\ UNCHANGED <<ba, knobs, gateway, leaseSt, preSteps, respFilter, txns, header, pushHdr, hpc, oneWIE, adminSteps, nAcq, nRel, budget, ctxDone, br, cleanup, fin, lg, nExec, path,
                 merging, mergeCh, quiescing, twq, pusheeDone, granted,
                 overtaken, staleCtx, cancelAt, resolved>>

(***************************************************************************)
(* executeBatchWithConcurrencyRetries (lines 146-229).                     *)
(***************************************************************************)
\* Lines 149-160: the spans are collected once, before the loop; a
\* collection error returns before the deferred finalizer is installed.
\* Line 156 records the batch and its spans for load-based splitting.
LoopEnter(p) ==
  /\ pc[p] = "loop"
  /\ LET cs == collectSpans(ba[p]) IN
       IF ~cs.ok
         THEN /\ pErr' = [pErr EXCEPT ![p] = Err("Plain", 0, "collectSpans")]
              /\ pc' = [pc EXCEPT ![p] = "sendret"]
              /\ spans' = spans
              /\ recorded' = recorded
         ELSE /\ spans' = [spans EXCEPT ![p] = cs.set]
              /\ pc' = [pc EXCEPT ![p] = "top"]
              /\ pErr' = pErr
              /\ recorded' = [recorded EXCEPT ![p] = @ \cup {"split"}]
  /\ UNCHANGED <<ba, knobs, gateway, leaseSt, preSteps, respFilter, txns, header, pushHdr, hpc, oneWIE, adminSteps, nAcq, nRel, budget, ctxDone, br, cleanup, fin, lg, nExec, path,
                 merging, mergeCh, quiescing, twq, pusheeDone, granted,
                 overtaken, staleCtx, cancelAt, resolved>>

\* The loop with latch acquisition moved above the wait-queue check: the
\* guard is taken at the top of the iteration.
LoopTop_LatchFirst(p) ==
  /\ pc[p] = "top"
  /\ IF ctxDone[p]
       THEN /\ br' = [br EXCEPT ![p] = NoBr]
            /\ pErr' = [pErr EXCEPT ![p] = Err("Canceled", 0, "loop")]
            /\ pc' = [pc EXCEPT ![p] = "defer"]
            /\ lg' = lg
       ELSE /\ CanAcquire(p)
            /\ lg' = [lg EXCEPT ![p] = @ + 1]
            /\ pc' = [pc EXCEPT ![p] = "waitq"]
            /\ UNCHANGED <<br, pErr>>
  /\ staleCtx' = [staleCtx EXCEPT ![p] = ctxDone[p]]
  /\ resolved' = [resolved EXCEPT ![p] = "none"]
  /\ UNCHANGED <<ba, knobs, gateway, leaseSt, preSteps, recorded, respFilter, txns, header, pushHdr, hpc, oneWIE, adminSteps, nAcq, nRel, budget, ctxDone, spans, cleanup, fin, nExec, path,
                 merging, mergeCh, quiescing, twq, pusheeDone, granted,
                 overtaken, cancelAt>>

\* The loop without the check of ctx.Err() at the top of an iteration.
LoopTop_NoCtxCheck(p) ==
  /\ pc[p] = "top"
  /\ pc' = [pc EXCEPT ![p] = "waitq"]
  /\ staleCtx' = [staleCtx EXCEPT ![p] = ctxDone[p]]
  /\ resolved' = [resolved EXCEPT ![p] = "none"]
  /\ UNCHANGED <<ba, knobs, gateway, leaseSt, preSteps, recorded, respFilter, txns, header, pushHdr, hpc, oneWIE, adminSteps, nAcq, nRel, budget, ctxDone, spans, br, pErr, cleanup, fin, lg,
                 nExec, path, merging, mergeCh, quiescing, twq, pusheeDone,
                 granted, overtaken, cancelAt>>

\* The loop checking ctx.Err() on its first iteration only.
LoopTop_CtxOnFirstOnly(p) ==
  /\ pc[p] = "top"
  /\ IF ctxDone[p] /\ nExec[p] = 0
       THEN /\ br' = [br EXCEPT ![p] = NoBr]
            /\ pErr' = [pErr EXCEPT ![p] = Err("Canceled", 0, "loop")]
            /\ pc' = [pc EXCEPT ![p] = "defer"]
       ELSE /\ pc' = [pc EXCEPT ![p] = "waitq"]
            /\ UNCHANGED <<br, pErr>>
  /\ staleCtx' = [staleCtx EXCEPT ![p] = ctxDone[p]]
  /\ resolved' = [resolved EXCEPT ![p] = "none"]
  /\ UNCHANGED <<ba, knobs, gateway, leaseSt, preSteps, recorded, respFilter, txns, header, pushHdr, hpc, oneWIE, adminSteps, nAcq, nRel, budget, ctxDone, spans, cleanup, fin, lg, nExec, path,
                 merging, mergeCh, quiescing, twq, pusheeDone, granted,
                 overtaken, cancelAt>>

\* The loop with a cap on its iterations: after one executor invocation the
\* top of the loop gives up as if the context were done.
LoopTop_RetryCap(p) ==
  /\ pc[p] = "top"
  /\ IF ctxDone[p] \/ nExec[p] >= 1
       THEN /\ br' = [br EXCEPT ![p] = NoBr]
            /\ pErr' = [pErr EXCEPT ![p] = Err("Canceled", 0, "loop")]
            /\ pc' = [pc EXCEPT ![p] = "defer"]
       ELSE /\ pc' = [pc EXCEPT ![p] = "waitq"]
            /\ UNCHANGED <<br, pErr>>
  /\ staleCtx' = [staleCtx EXCEPT ![p] = ctxDone[p]]
  /\ resolved' = [resolved EXCEPT ![p] = "none"]
  /\ UNCHANGED <<ba, knobs, gateway, leaseSt, preSteps, recorded, respFilter, txns, header, pushHdr, hpc, oneWIE, adminSteps, nAcq, nRel, budget, ctxDone, spans, cleanup, fin, lg, nExec, path,
                 merging, mergeCh, quiescing, twq, pusheeDone, granted,
                 overtaken, cancelAt>>

\* Lines 176-179: the cancellation check at the top of every iteration.
LoopTop(p) ==
  /\ pc[p] = "top"
  /\ IF ctxDone[p]
       THEN /\ br' = [br EXCEPT ![p] = NoBr]
            /\ pErr' = [pErr EXCEPT ![p] = Err("Canceled", 0, "loop")]
            /\ pc' = [pc EXCEPT ![p] = "defer"]
       ELSE /\ pc' = [pc EXCEPT ![p] = "waitq"]
            /\ UNCHANGED <<br, pErr>>
  /\ staleCtx' = [staleCtx EXCEPT ![p] = ctxDone[p]]
  /\ resolved' = [resolved EXCEPT ![p] = "none"]
  /\ UNCHANGED <<ba, knobs, gateway, leaseSt, preSteps, recorded, respFilter, txns, header, pushHdr, hpc, oneWIE, adminSteps, nAcq, nRel, budget, ctxDone, spans, cleanup, fin, lg, nExec, path,
                 merging, mergeCh, quiescing, twq, pusheeDone, granted,
                 overtaken, cancelAt>>

\* The caller must wait in the txnWaitQueue: a single push or query whose
\* target is enqueued and not yet updated.
MustWaitInQueue(p) ==
  /\ \/ IsSinglePushTxnRequest(ba[p]) /\ ~knobs.dontRetryPush
     \/ IsSingleQueryTxnRequest(ba[p])
  /\ twq
  /\ ~pusheeDone

\* The loop without lines 186-188: what maybeWaitForPushee returned is kept
\* in br and pErr, and the command goes on to latching.
MaybeWaitForPushee_NoReturn(p) ==
  /\ pc[p] = "waitq"
  /\ \/ /\ ~MustWaitInQueue(p)
        /\ IF IsSinglePushTxnRequest(ba[p]) /\ ~knobs.dontRetryPush
              /\ twq /\ pusheeDone
             THEN /\ br' = [br EXCEPT ![p] = Resp("nil", "waitq")]
                  /\ pErr' = [pErr EXCEPT ![p] = NoErr]
                  /\ pc' = [pc EXCEPT ![p] = "latch"]
             ELSE /\ br' = [br EXCEPT ![p] = NoBr]
                  /\ pErr' = [pErr EXCEPT ![p] = NoErr]
                  /\ pc' = [pc EXCEPT ![p] = "latch"]
     \/ /\ MustWaitInQueue(p)
        /\ ctxDone[p]
        /\ br' = [br EXCEPT ![p] = NoBr]
        /\ pErr' = [pErr EXCEPT ![p] = Err("Canceled", 0, "waitq")]
        /\ pc' = [pc EXCEPT ![p] = "defer"]
  /\ UNCHANGED <<ba, knobs, gateway, leaseSt, preSteps, recorded, respFilter, txns, header, pushHdr, hpc, oneWIE, adminSteps, nAcq, nRel, budget, ctxDone, spans, cleanup, fin, lg, nExec, path,
                 merging, mergeCh, quiescing, twq, pusheeDone, granted,
                 overtaken, staleCtx, cancelAt, resolved>>

\* Lines 181-188: maybeWaitForPushee.  It answers a push whose pushee was
\* updated while queued, fails when ctx ends during the wait, and otherwise
\* lets the request proceed to latching.
MaybeWaitForPushee(p) ==
  /\ pc[p] = "waitq"
  /\ \/ /\ ~MustWaitInQueue(p)
        /\ IF IsSinglePushTxnRequest(ba[p]) /\ ~knobs.dontRetryPush
              /\ twq /\ pusheeDone
             THEN /\ br' = [br EXCEPT ![p] = Resp("nil", "waitq")]
                  /\ pErr' = [pErr EXCEPT ![p] = NoErr]
                  /\ pc' = [pc EXCEPT ![p] = "defer"]
             ELSE /\ br' = [br EXCEPT ![p] = NoBr]
                  /\ pErr' = [pErr EXCEPT ![p] = NoErr]
                  /\ pc' = [pc EXCEPT ![p] = "latch"]
     \/ /\ MustWaitInQueue(p)
        /\ ctxDone[p]
        /\ br' = [br EXCEPT ![p] = NoBr]
        /\ pErr' = [pErr EXCEPT ![p] = Err("Canceled", 0, "waitq")]
        /\ pc' = [pc EXCEPT ![p] = "defer"]
  /\ UNCHANGED <<ba, knobs, gateway, leaseSt, preSteps, recorded, respFilter, txns, header, pushHdr, hpc, oneWIE, adminSteps, nAcq, nRel, budget, ctxDone, spans, cleanup, fin, lg, nExec, path,
                 merging, mergeCh, quiescing, twq, pusheeDone, granted,
                 overtaken, staleCtx, cancelAt, resolved>>

\* beginCmds over one range-wide latch: a guard is granted only while no
\* other caller holds any.
BeginCmds_Exclusive(p) ==
  /\ pc[p] = "latch"
  /\ \/ /\ \A q \in Procs \ {p} : lg[q] = 0
        /\ lg' = [lg EXCEPT ![p] = @ + 1]
        /\ nAcq' = [nAcq EXCEPT ![p] = @ + 1]
        /\ granted' = Append(granted, p)
        /\ pc' = [pc EXCEPT ![p] = "fn"]
        /\ UNCHANGED <<br, pErr>>
     \/ /\ ctxDone[p]
        /\ br' = [br EXCEPT ![p] = NoBr]
        /\ pErr' = [pErr EXCEPT ![p] = Err("Canceled", 0, "latch")]
        /\ pc' = [pc EXCEPT ![p] = "defer"]
        /\ UNCHANGED <<lg, nAcq, granted>>
  /\ UNCHANGED <<ba, knobs, gateway, leaseSt, preSteps, recorded, respFilter, txns, header, pushHdr, hpc, oneWIE, adminSteps, nRel, budget, ctxDone, spans, cleanup, fin, nExec, path,
                 merging, mergeCh, quiescing, twq, pusheeDone, overtaken,
                 staleCtx, cancelAt, resolved>>

\* Lines 190-197: beginCmds acquires the latch guard, waiting for
\* conflicting guards; it fails when ctx ends first.
BeginCmds(p) ==
  /\ pc[p] = "latch"
  /\ \/ /\ CanAcquire(p)
        /\ lg' = [lg EXCEPT ![p] = @ + 1]
        /\ nAcq' = [nAcq EXCEPT ![p] = @ + 1]
        /\ granted' = Append(granted, p)
        /\ pc' = [pc EXCEPT ![p] = "fn"]
        /\ UNCHANGED <<br, pErr>>
     \/ /\ ctxDone[p]
        /\ br' = [br EXCEPT ![p] = NoBr]
        /\ pErr' = [pErr EXCEPT ![p] = Err("Canceled", 0, "latch")]
        /\ pc' = [pc EXCEPT ![p] = "defer"]
        /\ UNCHANGED <<lg, nAcq, granted>>
  /\ UNCHANGED <<ba, knobs, gateway, leaseSt, preSteps, recorded, respFilter, txns, header, pushHdr, hpc, oneWIE, adminSteps, nRel, budget, ctxDone, spans, cleanup, fin, nExec, path,
                 merging, mergeCh, quiescing, twq, pusheeDone, overtaken,
                 staleCtx, cancelAt, resolved>>

\* Line 199: fn is invoked with the guard and begins evaluating.  A caller
\* overtakes when a conflicting caller was granted its guard earlier and has
\* not begun evaluating yet.
ExecStart(p) ==
  /\ pc[p] = "fn"
  /\ nExec' = [nExec EXCEPT ![p] = @ + 1]
  /\ overtaken' = (overtaken \/ \E i \in 1..Len(granted) :
                     /\ granted[i] # p
                     /\ BatchesConflict(ba[p], ba[granted[i]])
                     /\ \A j \in 1..i : granted[j] # p)
  /\ granted' = RemoveFirst(granted, p)
  /\ pc' = [pc EXCEPT ![p] = "exec"]
  /\ UNCHANGED <<ba, knobs, gateway, leaseSt, preSteps, recorded, respFilter, txns, header, pushHdr, hpc, oneWIE, adminSteps, nAcq, nRel, budget, ctxDone, spans, br, pErr, cleanup, fin, lg,
                 path, merging, mergeCh, quiescing, twq, pusheeDone,
                 staleCtx, cancelAt, resolved>>

\* What the executor may return: a response (with the transaction's
\* snapshot when the batch has one) or an error.  A conflict error names
\* the request that met it; a merge-in-progress error needs a merge.
ExecResults(p) ==
  {[br |-> Resp(st, "exec"), pErr |-> NoErr] :
      st \in IF ba[p].txn THEN {"PENDING", "COMMITTED"} ELSE {"nil"}}
  \cup {[br |-> NoBr, pErr |-> Err(k, 1, "exec")] :
      k \in {"AmbiguousResultError", "Other"}}
  \cup {[br |-> NoBr, pErr |-> Err(k, i, "exec")] :
      k \in IF budget[p] > 0
              THEN (ConflictKinds \ {"MergeInProgressError"})
                   \cup (IF merging THEN {"MergeInProgressError"} ELSE {})
              ELSE {},
      i \in 1..Len(ba[p].reqs)}

\* fn returns r: batchExecutionFn (lines 121-127) releases the latch guard
\* before or upon returning.
ExecReturns(p, r) ==
  /\ pc[p] = "exec"
  /\ r \in ExecResults(p)
  /\ lg' = [lg EXCEPT ![p] = @ - 1]
  /\ nRel' = [nRel EXCEPT ![p] = @ + 1]
  /\ budget' = [budget EXCEPT ![p] =
                  IF r.pErr.kind \in ConflictKinds THEN @ - 1 ELSE @]
  /\ oneWIE' = [oneWIE EXCEPT ![p] = IF r.pErr = NoErr THEN @ ELSE FALSE]

\* Lines 199-203 returning nil for the response.
Success_DropsResponse(p) ==
  /\ \E r \in ExecResults(p) :
       /\ ExecReturns(p, r)
       /\ GetDetail(r.pErr) = "nil"
       /\ br' = [br EXCEPT ![p] = NoBr]
       /\ pErr' = [pErr EXCEPT ![p] = NoErr]
  /\ pc' = [pc EXCEPT ![p] = "defer"]
  /\ UNCHANGED <<ba, knobs, gateway, leaseSt, preSteps, recorded, respFilter, txns, header, pushHdr, hpc, adminSteps, nAcq, ctxDone, spans, cleanup, fin, nExec, path,
                 merging, mergeCh, quiescing, twq, pusheeDone, granted,
                 overtaken, staleCtx, cancelAt, resolved>>

\* Lines 199-203: case nil, the executor reported no error.
Success(p) ==
  /\ \E r \in ExecResults(p) :
       /\ ExecReturns(p, r)
       /\ GetDetail(r.pErr) = "nil"
       /\ br' = [br EXCEPT ![p] = r.br]
       /\ pErr' = [pErr EXCEPT ![p] = NoErr]
  /\ pc' = [pc EXCEPT ![p] = "defer"]
  /\ UNCHANGED <<ba, knobs, gateway, leaseSt, preSteps, recorded, respFilter, txns, header, pushHdr, hpc, adminSteps, nAcq, ctxDone, spans, cleanup, fin, nExec, path,
                 merging, mergeCh, quiescing, twq, pusheeDone, granted,
                 overtaken, staleCtx, cancelAt, resolved>>

\* The default case retrying: an error that is not a conflict is dropped
\* and the command goes back to the top of the loop.
PropagateError_Retries(p) ==
  /\ \E r \in ExecResults(p) :
       /\ ExecReturns(p, r)
       /\ GetDetail(r.pErr) \notin ConflictKinds \cup {"nil"}
       /\ br' = [br EXCEPT ![p] = NoBr]
       /\ pErr' = [pErr EXCEPT ![p] = NoErr]
  /\ pc' = [pc EXCEPT ![p] = "top"]
  /\ UNCHANGED <<ba, knobs, gateway, leaseSt, preSteps, recorded, respFilter, txns, header, pushHdr, hpc, adminSteps, nAcq, ctxDone, spans, cleanup, fin, nExec, path,
                 merging, mergeCh, quiescing, twq, pusheeDone, granted,
                 overtaken, staleCtx, cancelAt, resolved>>

\* Lines 199, 224-226: default, an error that is not one of the four
\* conflicts is returned.
PropagateError(p) ==
  /\ \E r \in ExecResults(p) :
       /\ ExecReturns(p, r)
       /\ GetDetail(r.pErr) \notin ConflictKinds \cup {"nil"}
       /\ br' = [br EXCEPT ![p] = NoBr]
       /\ pErr' = [pErr EXCEPT ![p] = r.pErr]
  /\ pc' = [pc EXCEPT ![p] = "defer"]
  /\ UNCHANGED <<ba, knobs, gateway, leaseSt, preSteps, recorded, respFilter, txns, header, pushHdr, hpc, adminSteps, nAcq, ctxDone, spans, cleanup, fin, nExec, path,
                 merging, mergeCh, quiescing, twq, pusheeDone, granted,
                 overtaken, staleCtx, cancelAt, resolved>>

\* handleWriteIntentError without lines 279-281: the handle of the earlier
\* iteration is dropped, not finalized, when the resolver is called again.
HandleWriteIntentError_NoFinalize(p) ==
  /\ \E r \in ExecResults(p) :
       /\ ExecReturns(p, r)
       /\ GetDetail(r.pErr) = "WriteIntentError"
       /\ pErr' = [pErr EXCEPT ![p] = r.pErr]
  /\ br' = [br EXCEPT ![p] = NoBr]
  /\ pc' = [pc EXCEPT ![p] = IF knobs.dontPush THEN "defer" ELSE "ir"]
  /\ UNCHANGED <<ba, knobs, gateway, leaseSt, preSteps, recorded, respFilter, txns, header, pushHdr, hpc, adminSteps, nAcq, ctxDone, spans, cleanup, fin, nExec, path,
                 merging, mergeCh, quiescing, twq, pusheeDone, granted,
                 overtaken, staleCtx, cancelAt, resolved>>

\* handleWriteIntentError calling cleanup(nil, nil) at line 280: the earlier
\* handle is finalized as resolved, not handed the new conflict.
HandleWriteIntentError_FinalizeNil(p) ==
  /\ \E r \in ExecResults(p) :
       /\ ExecReturns(p, r)
       /\ GetDetail(r.pErr) = "WriteIntentError"
       /\ pErr' = [pErr EXCEPT ![p] = r.pErr]
  /\ br' = [br EXCEPT ![p] = NoBr]
  /\ IF knobs.dontPush
       THEN /\ pc' = [pc EXCEPT ![p] = "defer"]
            /\ fin' = fin
       ELSE /\ fin' = [fin EXCEPT ![p] = Finalize(@, cleanup[p], "nil")]
            /\ pc' = [pc EXCEPT ![p] = "ir"]
  /\ UNCHANGED <<ba, knobs, gateway, leaseSt, preSteps, recorded, respFilter, txns, header, pushHdr, hpc, adminSteps, nAcq, ctxDone, spans, cleanup, nExec, path,
                 merging, mergeCh, quiescing, twq, pusheeDone, granted,
                 overtaken, staleCtx, cancelAt, resolved>>

\* handleWriteIntentError without lines 238-240: the intents are pushed
\* whatever DontPushOnWriteIntentError says.
HandleWriteIntentError_IgnoresKnob(p) ==
  /\ \E r \in ExecResults(p) :
       /\ ExecReturns(p, r)
       /\ GetDetail(r.pErr) = "WriteIntentError"
       /\ pErr' = [pErr EXCEPT ![p] = r.pErr]
  /\ br' = [br EXCEPT ![p] = NoBr]
  /\ IF FALSE
       THEN /\ pc' = [pc EXCEPT ![p] = "defer"]
            /\ fin' = fin
       ELSE /\ fin' = [fin EXCEPT ![p] = Finalize(@, cleanup[p], "wie")]
            /\ pc' = [pc EXCEPT ![p] = "ir"]
  /\ UNCHANGED <<ba, knobs, gateway, leaseSt, preSteps, recorded, respFilter, txns, header, pushHdr, hpc, adminSteps, nAcq, ctxDone, spans, cleanup, nExec, path,
                 merging, mergeCh, quiescing, twq, pusheeDone, granted,
                 overtaken, staleCtx, cancelAt, resolved>>

\* Lines 204-207 with handleWriteIntentError up to its call of the intent
\* resolver (lines 231-282): with DontPushOnWriteIntentError the conflict is
\* returned with the handle untouched; otherwise the handle of an earlier
\* iteration is finalized with the new conflict and the resolver is called.
\* (The observed timestamp the handler reads was set by Store.Send.)
HandleWriteIntentError(p) ==
  /\ \E r \in ExecResults(p) :
       /\ ExecReturns(p, r)
       /\ GetDetail(r.pErr) = "WriteIntentError"
       /\ pErr' = [pErr EXCEPT ![p] = r.pErr]
  /\ br' = [br EXCEPT ![p] = NoBr]
  /\ IF knobs.dontPush
       THEN /\ pc' = [pc EXCEPT ![p] = "defer"]
            /\ fin' = fin
       ELSE /\ fin' = [fin EXCEPT ![p] = Finalize(@, cleanup[p], "wie")]
            /\ pc' = [pc EXCEPT ![p] = "ir"]
  /\ UNCHANGED <<ba, knobs, gateway, leaseSt, preSteps, recorded, respFilter, txns, header, pushHdr, hpc, adminSteps, nAcq, ctxDone, spans, cleanup, nExec, path,
                 merging, mergeCh, quiescing, twq, pusheeDone, granted,
                 overtaken, staleCtx, cancelAt, resolved>>

\* What ProcessWriteIntentError and ResolveIndeterminateCommit may report.
ResolutionErrors == {"nil", "AmbiguousResultError", "Other"}

\* handleWriteIntentError without lines 284-287: an ambiguous result of the
\* resolver is propagated like any other error.
WIEOutcome_AmbiguousFails(p, h, e) ==
  LET newFin == IF h THEN Append(fin[p], "held") ELSE fin[p]
      newCleanup == IF h THEN Len(fin[p]) + 1 ELSE 0
  IN IF e = "nil"
       THEN [fin |-> newFin, cleanup |-> newCleanup, pErr |-> NoErr,
             br |-> br[p], pc |-> "top"]
       ELSE [fin |-> newFin, cleanup |-> newCleanup,
             pErr |-> Err(e, pErr[p].index, "resolver"),
             br |-> NoBr, pc |-> "defer"]

\* handleWriteIntentError returning nil in place of the handle that came
\* with the resolver's error (line 291).
WIEOutcome_DropsHandleOnError(p, h, e) ==
  LET newFin == IF h THEN Append(fin[p], "held") ELSE fin[p]
      newCleanup == IF h THEN Len(fin[p]) + 1 ELSE 0
  IN IF e = "nil" \/ e = "AmbiguousResultError"
       THEN [fin |-> newFin, cleanup |-> newCleanup, pErr |-> NoErr,
             br |-> br[p], pc |-> "top"]
       ELSE [fin |-> newFin, cleanup |-> 0,
             pErr |-> Err(e, pErr[p].index, "resolver"),
             br |-> NoBr, pc |-> "defer"]

\* Lines 282-293 and 205-208: what the caller holds after the intent
\* resolver returned a handle (h) or none and the error e.
WIEOutcome(p, h, e) ==
  LET newFin == IF h THEN Append(fin[p], "held") ELSE fin[p]
      newCleanup == IF h THEN Len(fin[p]) + 1 ELSE 0
  IN IF e = "nil" \/ e = "AmbiguousResultError"
       THEN [fin |-> newFin, cleanup |-> newCleanup, pErr |-> NoErr,
             br |-> br[p], pc |-> "top"]
       ELSE [fin |-> newFin, cleanup |-> newCleanup,
             pErr |-> Err(e, pErr[p].index, "resolver"),
             br |-> NoBr, pc |-> "defer"]

IntentResolverReturn(p) ==
  /\ pc[p] = "ir"
  /\ \E h \in BOOLEAN, e \in ResolutionErrors :
       LET o == WIEOutcome(p, h, e) IN
         /\ fin' = [fin EXCEPT ![p] = o.fin]
         /\ cleanup' = [cleanup EXCEPT ![p] = o.cleanup]
         /\ pErr' = [pErr EXCEPT ![p] = o.pErr]
         /\ br' = [br EXCEPT ![p] = o.br]
         /\ pc' = [pc EXCEPT ![p] = o.pc]
         /\ resolved' = [resolved EXCEPT ![p] = e]
         /\ oneWIE' = [oneWIE EXCEPT ![p] = (nExec[p] = 1 /\ e = "nil")]
  /\ UNCHANGED <<ba, knobs, gateway, leaseSt, preSteps, recorded, respFilter, txns, header, pushHdr, hpc, adminSteps, nAcq, nRel, budget, ctxDone, spans, lg, nExec, path, merging, mergeCh,
                 quiescing, twq, pusheeDone, granted, overtaken, cancelAt, staleCtx>>

\* Lines 306-310: whether handleTransactionPushError gives up at once.
DontRetryPush(b) ==
  IF ~knobs.dontRetryPush /\ IsSinglePushTxnRequest(b)
    THEN b.reqs[1].imm
    ELSE knobs.dontRetryPush

\* handleTransactionPushError without lines 311-313: the pushee is enqueued
\* and the command retried whatever dontRetry says.
HandleTransactionPushError_AlwaysEnqueues(p) ==
  /\ \E r \in ExecResults(p) :
       /\ ExecReturns(p, r)
       /\ GetDetail(r.pErr) = "TransactionPushError"
       /\ twq' = TRUE
       /\ pErr' = [pErr EXCEPT ![p] = NoErr]
       /\ pc' = [pc EXCEPT ![p] = "top"]
  /\ br' = [br EXCEPT ![p] = NoBr]
  /\ UNCHANGED <<ba, knobs, gateway, leaseSt, preSteps, recorded, respFilter, txns, header, pushHdr, hpc, adminSteps, nAcq, ctxDone, spans, cleanup, fin, nExec, path,
                 merging, mergeCh, quiescing, pusheeDone, granted, overtaken,
                 cancelAt, resolved, staleCtx>>

\* handleTransactionPushError without line 315: the command is retried but
\* the pushee is not enqueued.
HandleTransactionPushError_NoEnqueue(p) ==
  /\ \E r \in ExecResults(p) :
       /\ ExecReturns(p, r)
       /\ GetDetail(r.pErr) = "TransactionPushError"
       /\ IF DontRetryPush(ba[p])
            THEN /\ pErr' = [pErr EXCEPT ![p] = r.pErr]
                 /\ pc' = [pc EXCEPT ![p] = "defer"]
            ELSE /\ pErr' = [pErr EXCEPT ![p] = NoErr]
                 /\ pc' = [pc EXCEPT ![p] = "top"]
  /\ twq' = twq
  /\ br' = [br EXCEPT ![p] = NoBr]
  /\ UNCHANGED <<ba, knobs, gateway, leaseSt, preSteps, recorded, respFilter, txns, header, pushHdr, hpc, adminSteps, nAcq, ctxDone, spans, cleanup, fin, nExec, path,
                 merging, mergeCh, quiescing, pusheeDone, granted, overtaken,
                 cancelAt, resolved, staleCtx>>

\* Lines 209-212 with handleTransactionPushError (lines 296-317).
HandleTransactionPushError(p) ==
  /\ \E r \in ExecResults(p) :
       /\ ExecReturns(p, r)
       /\ GetDetail(r.pErr) = "TransactionPushError"
       /\ IF DontRetryPush(ba[p])
            THEN /\ pErr' = [pErr EXCEPT ![p] = r.pErr]
                 /\ pc' = [pc EXCEPT ![p] = "defer"]
                 /\ twq' = twq
            ELSE /\ twq' = TRUE
                 /\ pErr' = [pErr EXCEPT ![p] = NoErr]
                 /\ pc' = [pc EXCEPT ![p] = "top"]
  /\ br' = [br EXCEPT ![p] = NoBr]
  /\ UNCHANGED <<ba, knobs, gateway, leaseSt, preSteps, recorded, respFilter, txns, header, pushHdr, hpc, adminSteps, nAcq, ctxDone, spans, cleanup, fin, nExec, path,
                 merging, mergeCh, quiescing, pusheeDone, granted, overtaken,
                 cancelAt, resolved, staleCtx>>

\* handleIndeterminateCommitError without lines 325-327: recovery is
\* attempted whatever DontRecoverIndeterminateCommits says.
HandleIndeterminateCommitError_IgnoresKnob(p) ==
  /\ \E r \in ExecResults(p) :
       /\ ExecReturns(p, r)
       /\ GetDetail(r.pErr) = "IndeterminateCommitError"
       /\ pErr' = [pErr EXCEPT ![p] = r.pErr]
  /\ br' = [br EXCEPT ![p] = NoBr]
  /\ pc' = [pc EXCEPT ![p] = "rec"]
  /\ UNCHANGED <<ba, knobs, gateway, leaseSt, preSteps, recorded, respFilter, txns, header, pushHdr, hpc, adminSteps, nAcq, ctxDone, spans, cleanup, fin, nExec, path,
                 merging, mergeCh, quiescing, twq, pusheeDone, granted,
                 overtaken, staleCtx, cancelAt, resolved>>

\* Lines 214-217 with handleIndeterminateCommitError up to its call of the
\* recovery manager (lines 319-330).
HandleIndeterminateCommitError(p) ==
  /\ \E r \in ExecResults(p) :
       /\ ExecReturns(p, r)
       /\ GetDetail(r.pErr) = "IndeterminateCommitError"
       /\ pErr' = [pErr EXCEPT ![p] = r.pErr]
  /\ br' = [br EXCEPT ![p] = NoBr]
  /\ pc' = [pc EXCEPT ![p] = IF knobs.dontRecover THEN "defer" ELSE "rec"]
  /\ UNCHANGED <<ba, knobs, gateway, leaseSt, preSteps, recorded, respFilter, txns, header, pushHdr, hpc, adminSteps, nAcq, ctxDone, spans, cleanup, fin, nExec, path,
                 merging, mergeCh, quiescing, twq, pusheeDone, granted,
                 overtaken, staleCtx, cancelAt, resolved>>

\* handleIndeterminateCommitError without lines 331-334: an ambiguous result
\* of the recovery is returned as a new error.
ICEOutcome_PropagatesAmbiguity(p, e) ==
  IF e = "nil"
    THEN [pErr |-> NoErr, br |-> br[p], pc |-> "top"]
    ELSE [pErr |-> Err(e, pErr[p].index, "recovery"), br |-> NoBr,
          pc |-> "defer"]

\* Lines 330-341 and 215-218: what the caller holds after
\* ResolveIndeterminateCommit reported e.
ICEOutcome(p, e) ==
  IF e = "nil" \/ e = "AmbiguousResultError"
    THEN [pErr |-> NoErr, br |-> br[p], pc |-> "top"]
    ELSE [pErr |-> Err(e, pErr[p].index, "recovery"), br |-> NoBr,
          pc |-> "defer"]

RecoveryReturn(p) ==
  /\ pc[p] = "rec"
  /\ \E e \in ResolutionErrors :
       LET o == ICEOutcome(p, e) IN
         /\ pErr' = [pErr EXCEPT ![p] = o.pErr]
         /\ br' = [br EXCEPT ![p] = o.br]
         /\ pc' = [pc EXCEPT ![p] = o.pc]
         /\ resolved' = [resolved EXCEPT ![p] = e]
  /\ UNCHANGED <<ba, knobs, gateway, leaseSt, preSteps, recorded, respFilter, txns, header, pushHdr, hpc, oneWIE, adminSteps, nAcq, nRel, budget, ctxDone, spans, cleanup, fin, lg, nExec, path,
                 merging, mergeCh, quiescing, twq, pusheeDone, granted,
                 overtaken, cancelAt, staleCtx>>

\* Lines 199, 219-220: the executor met a merge in progress.
MergeInProgress(p) ==
  /\ \E r \in ExecResults(p) :
       /\ ExecReturns(p, r)
       /\ GetDetail(r.pErr) = "MergeInProgressError"
       /\ pErr' = [pErr EXCEPT ![p] = r.pErr]
  /\ br' = [br EXCEPT ![p] = NoBr]
  /\ pc' = [pc EXCEPT ![p] = "mipe"]
  /\ UNCHANGED <<ba, knobs, gateway, leaseSt, preSteps, recorded, respFilter, txns, header, pushHdr, hpc, adminSteps, nAcq, ctxDone, spans, cleanup, fin, nExec, path,
                 merging, mergeCh, quiescing, twq, pusheeDone, granted,
                 overtaken, staleCtx, cancelAt, resolved>>

\* handleMergeInProgressError looking at ctx.Err() before the merge channel.
HandleMergeInProgressError_ChecksCtx(p) ==
  /\ pc[p] = "mipe"
  /\ IF ctxDone[p]
       THEN /\ pErr' = [pErr EXCEPT ![p] = Err("Canceled", 0, "merge")]
            /\ pc' = [pc EXCEPT ![p] = "defer"]
            /\ mergeCh' = mergeCh
            /\ resolved' = resolved
     ELSE IF ~merging
       THEN /\ pErr' = [pErr EXCEPT ![p] = NoErr]
            /\ pc' = [pc EXCEPT ![p] = "top"]
            /\ mergeCh' = mergeCh
            /\ resolved' = [resolved EXCEPT ![p] = "mergeGone"]
       ELSE /\ mergeCh' = [mergeCh EXCEPT ![p] = "open"]
            /\ pc' = [pc EXCEPT ![p] = "merge"]
            /\ pErr' = pErr
            /\ resolved' = resolved
  /\ UNCHANGED <<ba, knobs, gateway, leaseSt, preSteps, recorded, respFilter, txns, header, pushHdr, hpc, oneWIE, adminSteps, nAcq, nRel, budget, ctxDone, spans, br, cleanup, fin, lg, nExec,
                 path, merging, quiescing, twq, pusheeDone, granted, overtaken,
                 cancelAt, staleCtx>>

\* handleMergeInProgressError taking the cleanup handle from the loop and
\* handing back nil.
HandleMergeInProgressError_DropsHandle(p) ==
  /\ pc[p] = "mipe"
  /\ cleanup' = [cleanup EXCEPT ![p] = 0]
  /\ IF ~merging
       THEN /\ pErr' = [pErr EXCEPT ![p] = NoErr]
            /\ pc' = [pc EXCEPT ![p] = "top"]
            /\ mergeCh' = mergeCh
            /\ resolved' = [resolved EXCEPT ![p] = "mergeGone"]
       ELSE /\ mergeCh' = [mergeCh EXCEPT ![p] = "open"]
            /\ pc' = [pc EXCEPT ![p] = "merge"]
            /\ pErr' = pErr
            /\ resolved' = resolved
  /\ UNCHANGED <<ba, knobs, gateway, leaseSt, preSteps, recorded, respFilter, txns, header, pushHdr, hpc, oneWIE, adminSteps, nAcq, nRel, budget, ctxDone, spans, br, fin, lg, nExec,
                 path, merging, quiescing, twq, pusheeDone, granted, overtaken,
                 cancelAt, staleCtx>>

\* handleMergeInProgressError up to its select (lines 344-359): the merge
\* may be over by now; a nil channel means it is, and the command retries.
HandleMergeInProgressError(p) ==
  /\ pc[p] = "mipe"
  /\ IF ~merging
       THEN /\ pErr' = [pErr EXCEPT ![p] = NoErr]
            /\ pc' = [pc EXCEPT ![p] = "top"]
            /\ mergeCh' = mergeCh
            /\ resolved' = [resolved EXCEPT ![p] = "mergeGone"]
       ELSE /\ mergeCh' = [mergeCh EXCEPT ![p] = "open"]
            /\ pc' = [pc EXCEPT ![p] = "merge"]
            /\ pErr' = pErr
            /\ resolved' = resolved
  /\ UNCHANGED <<ba, knobs, gateway, leaseSt, preSteps, recorded, respFilter, txns, header, pushHdr, hpc, oneWIE, adminSteps, nAcq, nRel, budget, ctxDone, spans, br, cleanup, fin, lg, nExec,
                 path, merging, quiescing, twq, pusheeDone, granted, overtaken,
                 cancelAt, staleCtx>>

\* The select without its ctx.Done() case (lines 364-365).
MergeWait_NoCtx(p) ==
  /\ pc[p] = "merge"
  /\ \/ /\ mergeCh[p] = "closed"
        /\ pErr' = [pErr EXCEPT ![p] = NoErr]
        /\ pc' = [pc EXCEPT ![p] = "top"]
        /\ br' = br
     \/ /\ quiescing
        /\ pErr' = [pErr EXCEPT ![p] = Err("NodeUnavailableError", 0, "merge")]
        /\ br' = [br EXCEPT ![p] = NoBr]
        /\ pc' = [pc EXCEPT ![p] = "defer"]
  /\ mergeCh' = [mergeCh EXCEPT ![p] = "none"]
  /\ UNCHANGED <<ba, knobs, gateway, leaseSt, preSteps, recorded, respFilter, txns, header, pushHdr, hpc, oneWIE, adminSteps, nAcq, nRel, budget, ctxDone, spans, cleanup, fin, lg, nExec, path,
                 merging, quiescing, twq, pusheeDone, granted, overtaken,
                 cancelAt, resolved, staleCtx>>

\* The select with its ShouldQuiesce() case returning nil: a shutdown sends
\* the command back to the top of the loop.
MergeWait_QuiesceRetries(p) ==
  /\ pc[p] = "merge"
  /\ \/ /\ mergeCh[p] = "closed"
        /\ pErr' = [pErr EXCEPT ![p] = NoErr]
        /\ pc' = [pc EXCEPT ![p] = "top"]
        /\ br' = br
     \/ /\ ctxDone[p]
        /\ pErr' = [pErr EXCEPT ![p] = Err("Canceled", 0, "merge")]
        /\ br' = [br EXCEPT ![p] = NoBr]
        /\ pc' = [pc EXCEPT ![p] = "defer"]
     \/ /\ quiescing
        /\ pErr' = [pErr EXCEPT ![p] = NoErr]
        /\ pc' = [pc EXCEPT ![p] = "top"]
        /\ br' = br
  /\ mergeCh' = [mergeCh EXCEPT ![p] = "none"]
  /\ UNCHANGED <<ba, knobs, gateway, leaseSt, preSteps, recorded, respFilter, txns, header, pushHdr, hpc, oneWIE, adminSteps, nAcq, nRel, budget, ctxDone, spans, cleanup, fin, lg, nExec, path,
                 merging, quiescing, twq, pusheeDone, granted, overtaken,
                 cancelAt, resolved, staleCtx>>

\* Lines 360-368: the select over the merge channel, ctx.Done() and
\* ShouldQuiesce(); any ready case may be taken.
MergeWait(p) ==
  /\ pc[p] = "merge"
  /\ \/ /\ mergeCh[p] = "closed"
        /\ pErr' = [pErr EXCEPT ![p] = NoErr]
        /\ pc' = [pc EXCEPT ![p] = "top"]
        /\ br' = br
     \/ /\ ctxDone[p]
        /\ pErr' = [pErr EXCEPT ![p] = Err("Canceled", 0, "merge")]
        /\ br' = [br EXCEPT ![p] = NoBr]
        /\ pc' = [pc EXCEPT ![p] = "defer"]
     \/ /\ quiescing
        /\ pErr' = [pErr EXCEPT ![p] = Err("NodeUnavailableError", 0, "merge")]
        /\ br' = [br EXCEPT ![p] = NoBr]
        /\ pc' = [pc EXCEPT ![p] = "defer"]
  /\ mergeCh' = [mergeCh EXCEPT ![p] = "none"]
  /\ UNCHANGED <<ba, knobs, gateway, leaseSt, preSteps, recorded, respFilter, txns, header, pushHdr, hpc, oneWIE, adminSteps, nAcq, nRel, budget, ctxDone, spans, cleanup, fin, lg, nExec, path,
                 merging, quiescing, twq, pusheeDone, granted, overtaken,
                 cancelAt, resolved, staleCtx>>

\* executeBatchWithConcurrencyRetries without its deferred call (lines
\* 161-172): a handle still held at the return is left as it is.
ExitFinalize_NoDefer(p) ==
  /\ pc[p] = "defer"
  /\ fin' = fin
  /\ pc' = [pc EXCEPT ![p] = "sendret"]
  /\ UNCHANGED <<ba, knobs, gateway, leaseSt, preSteps, recorded, respFilter, txns, header, pushHdr, hpc, oneWIE, adminSteps, nAcq, nRel, budget, ctxDone, spans, br, pErr, cleanup, lg, nExec, path,
                 merging, mergeCh, quiescing, twq, pusheeDone, granted,
                 overtaken, staleCtx, cancelAt, resolved>>

\* The deferred finalizer without the !ba.IsReadOnly() conjunct of line 166.
ExitFinalize_IgnoresReadOnly(p) ==
  /\ pc[p] = "defer"
  /\ IF cleanup[p] = 0
       THEN /\ fin' = fin
            /\ pc' = [pc EXCEPT ![p] = "sendret"]
     ELSE IF pErr[p] = NoErr /\ ba[p].txn
       THEN IF br[p].txn = "nil"
              THEN /\ fin' = fin
                   /\ pc' = [pc EXCEPT ![p] = "panic"]
            ELSE IF ~IsFinalized(br[p].txn)
              THEN /\ fin' = [fin EXCEPT ![p] = Finalize(@, cleanup[p], "txn")]
                   /\ pc' = [pc EXCEPT ![p] = "sendret"]
              ELSE /\ fin' = [fin EXCEPT ![p] = Finalize(@, cleanup[p], "nil")]
                   /\ pc' = [pc EXCEPT ![p] = "sendret"]
     ELSE /\ fin' = [fin EXCEPT ![p] = Finalize(@, cleanup[p], "nil")]
          /\ pc' = [pc EXCEPT ![p] = "sendret"]
  /\ UNCHANGED <<ba, knobs, gateway, leaseSt, preSteps, recorded, respFilter, txns, header, pushHdr, hpc, oneWIE, adminSteps, nAcq, nRel, budget, ctxDone, spans, br, pErr, cleanup, lg, nExec, path,
                 merging, mergeCh, quiescing, twq, pusheeDone, granted,
                 overtaken, staleCtx, cancelAt, resolved>>

\* Lines 161-172: the deferred finalizer.  It reads br.Txn.Status without a
\* nil check, so a nil response or a response without Txn panics there.
ExitFinalize(p) ==
  /\ pc[p] = "defer"
  /\ IF cleanup[p] = 0
       THEN /\ fin' = fin
            /\ pc' = [pc EXCEPT ![p] = "sendret"]
     ELSE IF pErr[p] = NoErr /\ ba[p].txn
       THEN IF br[p].txn = "nil"
              THEN /\ fin' = fin
                   /\ pc' = [pc EXCEPT ![p] = "panic"]
            ELSE IF ~IsFinalized(br[p].txn) /\ ~IsReadOnly(ba[p])
              THEN /\ fin' = [fin EXCEPT ![p] = Finalize(@, cleanup[p], "txn")]
                   /\ pc' = [pc EXCEPT ![p] = "sendret"]
              ELSE /\ fin' = [fin EXCEPT ![p] = Finalize(@, cleanup[p], "nil")]
                   /\ pc' = [pc EXCEPT ![p] = "sendret"]
     ELSE /\ fin' = [fin EXCEPT ![p] = Finalize(@, cleanup[p], "nil")]
          /\ pc' = [pc EXCEPT ![p] = "sendret"]
  /\ UNCHANGED <<ba, knobs, gateway, leaseSt, preSteps, recorded, respFilter, txns, header, pushHdr, hpc, oneWIE, adminSteps, nAcq, nRel, budget, ctxDone, spans, br, pErr, cleanup, lg, nExec, path,
                 merging, mergeCh, quiescing, twq, pusheeDone, granted,
                 overtaken, staleCtx, cancelAt, resolved>>

(***************************************************************************)
(* executeAdminBatch (lines 376-477).                                      *)
(***************************************************************************)
\* executeAdminBatch with the lease obtained before the batch's length is
\* looked at.
AdminOutcome_LeaseFirst(b, lease, proceed, handled) ==
  IF ~lease
    THEN [steps |-> <<"leaseErr">>, br |-> NoBr,
          pErr |-> Err("Other", 0, "lease")]
  ELSE IF Len(b.reqs) # 1
    THEN [steps |-> <<"leaseOk">>, br |-> NoBr,
          pErr |-> Err("Plain", 0, "adminBatchSize")]
  ELSE IF ~proceed
    THEN [steps |-> <<"leaseOk", "canProceedErr">>, br |-> NoBr,
          pErr |-> Err("Other", 0, "canProceed")]
  ELSE IF b.reqs[1].m \notin AdminMethods
    THEN [steps |-> <<"leaseOk", "canProceedOk">>, br |-> NoBr,
          pErr |-> Err("Plain", 0, "adminKind")]
  ELSE IF ~handled
    THEN [steps |-> <<"leaseOk", "canProceedOk", "handler">>, br |-> NoBr,
          pErr |-> Err("Other", 0, "adminHandler")]
  ELSE [steps |-> <<"leaseOk", "canProceedOk", "handler">>,
        br |-> Resp("nil", "admin"), pErr |-> NoErr]

\* executeAdminBatch without lines 399-401: the error of
\* checkExecutionCanProceed is dropped and the handler runs.
AdminOutcome_IgnoresCanProceed(b, lease, proceed, handled) ==
  LET checked == IF proceed THEN "canProceedOk" ELSE "canProceedErr" IN
  IF Len(b.reqs) # 1
    THEN [steps |-> << >>, br |-> NoBr,
          pErr |-> Err("Plain", 0, "adminBatchSize")]
  ELSE IF ~lease
    THEN [steps |-> <<"leaseErr">>, br |-> NoBr,
          pErr |-> Err("Other", 0, "lease")]
  ELSE IF b.reqs[1].m \notin AdminMethods
    THEN [steps |-> <<"leaseOk", checked>>, br |-> NoBr,
          pErr |-> Err("Plain", 0, "adminKind")]
  ELSE IF ~handled
    THEN [steps |-> <<"leaseOk", checked, "handler">>, br |-> NoBr,
          pErr |-> Err("Other", 0, "adminHandler")]
  ELSE [steps |-> <<"leaseOk", checked, "handler">>,
        br |-> Resp("nil", "admin"), pErr |-> NoErr]

\* What executeAdminBatch calls and returns for batch b, given whether the
\* lease is obtained, whether checkExecutionCanProceed passes and whether
\* the command's handler succeeds.
AdminOutcome(b, lease, proceed, handled) ==
  IF Len(b.reqs) # 1
    THEN [steps |-> << >>, br |-> NoBr,
          pErr |-> Err("Plain", 0, "adminBatchSize")]
  ELSE IF ~lease
    THEN [steps |-> <<"leaseErr">>, br |-> NoBr,
          pErr |-> Err("Other", 0, "lease")]
  ELSE IF ~proceed
    THEN [steps |-> <<"leaseOk", "canProceedErr">>, br |-> NoBr,
          pErr |-> Err("Other", 0, "canProceed")]
  ELSE IF b.reqs[1].m \notin AdminMethods
    THEN [steps |-> <<"leaseOk", "canProceedOk">>, br |-> NoBr,
          pErr |-> Err("Plain", 0, "adminKind")]
  ELSE IF ~handled
    THEN [steps |-> <<"leaseOk", "canProceedOk", "handler">>, br |-> NoBr,
          pErr |-> Err("Other", 0, "adminHandler")]
  ELSE [steps |-> <<"leaseOk", "canProceedOk", "handler">>,
        br |-> Resp("nil", "admin"), pErr |-> NoErr]

ExecuteAdminBatch(p) ==
  /\ pc[p] = "admin"
  /\ \E lease \in BOOLEAN, proceed \in BOOLEAN, handled \in BOOLEAN :
       LET o == AdminOutcome(ba[p], lease, proceed, handled) IN
         /\ adminSteps' = [adminSteps EXCEPT ![p] = o.steps]
         /\ pErr' = [pErr EXCEPT ![p] = o.pErr]
         /\ br' = [br EXCEPT ![p] = o.br]
  /\ pc' = [pc EXCEPT ![p] = "sendret"]
  /\ UNCHANGED <<ba, knobs, gateway, leaseSt, preSteps, recorded, respFilter, txns, header, pushHdr, hpc, oneWIE, nAcq, nRel, budget, ctxDone, spans, cleanup, fin,
                 lg, nExec, path, merging, mergeCh, quiescing, twq, pusheeDone,
                 granted, overtaken, staleCtx, cancelAt, resolved>>

(***************************************************************************)
(* The end of Send (lines 111-118).                                        *)
(***************************************************************************)
\* Lines 111-118.  With an error in hand the TestingResponseFilter knob is
\* not looked at ("unasked").  With none, the knob is read: a filter that
\* is installed is given the response and its result, nil or an error,
\* becomes the error ("absent": no filter installed).  br is returned as
\* it is.
SendReturn(p) ==
  /\ pc[p] = "sendret"
  /\ IF pErr[p] # NoErr
       THEN /\ pErr' = pErr
            /\ respFilter' = [respFilter EXCEPT ![p] = "unasked"]
       ELSE \E f \in {"absent", "nil", "err"} :
              /\ respFilter' = [respFilter EXCEPT ![p] = f]
              /\ pErr' = [pErr EXCEPT ![p] =
                            IF f = "err" THEN Err("Other", 0, "responseFilter")
                            ELSE NoErr]
  /\ pc' = [pc EXCEPT ![p] = "done"]
  /\ UNCHANGED <<ba, knobs, gateway, leaseSt, preSteps, recorded, txns, header, pushHdr, hpc, oneWIE, adminSteps, nAcq, nRel, budget, ctxDone, spans, br, cleanup, fin, lg, nExec, path,
                 merging, mergeCh, quiescing, twq, pusheeDone, granted,
                 overtaken, staleCtx, cancelAt, resolved>>

(***************************************************************************)
(* The environment: cancellation, merges, shutdown, the pushee.            *)
(***************************************************************************)
Returned(p) == pc[p] \in {"done", "fatal", "panic"}

LatchBlocked(p) == pc[p] = "latch" /\ ~CanAcquire(p)
WaitqBlocked(p) == pc[p] = "waitq" /\ MustWaitInQueue(p)
MergeBlocked(p) == pc[p] = "merge" /\ mergeCh[p] = "open" /\ ~quiescing

\* The caller's context is cancelled or its deadline passes.
Cancel(p) ==
  /\ pc[p] # "off" /\ ~Returned(p)
  /\ ~ctxDone[p]
  /\ ctxDone' = [ctxDone EXCEPT ![p] = TRUE]
  /\ cancelAt' = [cancelAt EXCEPT ![p] =
                    IF LatchBlocked(p) THEN "latch"
                    ELSE IF WaitqBlocked(p) THEN "waitq"
                    ELSE IF MergeBlocked(p) THEN "merge"
                    ELSE "running"]
  /\ UNCHANGED <<ba, knobs, gateway, leaseSt, preSteps, recorded, respFilter, txns, header, pushHdr, hpc, oneWIE, adminSteps, nAcq, nRel, budget, pc, spans, br, pErr, cleanup, fin, lg, nExec, path,
                 merging, mergeCh, quiescing, twq, pusheeDone, granted,
                 overtaken, staleCtx, resolved>>

MergeStart ==
  /\ ~merging
  /\ merging' = TRUE
  /\ UNCHANGED <<ba, knobs, gateway, leaseSt, preSteps, recorded, respFilter, txns, header, pushHdr, hpc, oneWIE, adminSteps, nAcq, nRel, budget, pc, ctxDone, spans, br, pErr, cleanup, fin, lg,
                 nExec, path, mergeCh, quiescing, twq, pusheeDone, granted,
                 overtaken, staleCtx, cancelAt, resolved>>

\* The merge ends: mergeComplete is closed and reset to nil.
MergeComplete ==
  /\ merging
  /\ merging' = FALSE
  /\ mergeCh' = [p \in Procs |-> IF mergeCh[p] = "open" THEN "closed"
                                  ELSE mergeCh[p]]
  /\ UNCHANGED <<ba, knobs, gateway, leaseSt, preSteps, recorded, respFilter, txns, header, pushHdr, hpc, oneWIE, adminSteps, nAcq, nRel, budget, pc, ctxDone, spans, br, pErr, cleanup, fin, lg,
                 nExec, path, quiescing, twq, pusheeDone, granted, overtaken,
                 staleCtx, cancelAt, resolved>>

\* The store begins to shut down.  Only the select of a merge wait reads
\* ShouldQuiesce, so the event is taken once some caller is at that select.
Quiesce ==
  /\ ~quiescing
  /\ \E p \in Procs : pc[p] = "merge"
  /\ quiescing' = TRUE
  /\ UNCHANGED <<ba, knobs, gateway, leaseSt, preSteps, recorded, respFilter, txns, header, pushHdr, hpc, oneWIE, adminSteps, nAcq, nRel, budget, pc, ctxDone, spans, br, pErr, cleanup, fin, lg,
                 nExec, path, merging, mergeCh, twq, pusheeDone, granted,
                 overtaken, staleCtx, cancelAt, resolved>>

\* The pushee's record is updated; the txnWaitQueue tells its waiters.
PusheeUpdate ==
  /\ ~pusheeDone
  /\ twq
  /\ pusheeDone' = TRUE
  /\ UNCHANGED <<ba, knobs, gateway, leaseSt, preSteps, recorded, respFilter, txns, header, pushHdr, hpc, oneWIE, adminSteps, nAcq, nRel, budget, pc, ctxDone, spans, br, pErr, cleanup, fin, lg,
                 nExec, path, merging, mergeCh, quiescing, twq, granted,
                 overtaken, staleCtx, cancelAt, resolved>>

(***************************************************************************)
(* Specifications.                                                         *)
(***************************************************************************)
ProcStep(p) ==
  \/ Send(p)
  \/ LoopEnter(p)
  \/ LoopTop(p)
  \/ MaybeWaitForPushee(p)
  \/ BeginCmds(p)
  \/ ExecStart(p)
  \/ Success(p)
  \/ PropagateError(p)
  \/ HandleWriteIntentError(p)
  \/ IntentResolverReturn(p)
  \/ HandleTransactionPushError(p)
  \/ HandleIndeterminateCommitError(p)
  \/ RecoveryReturn(p)
  \/ MergeInProgress(p)
  \/ HandleMergeInProgressError(p)
  \/ MergeWait(p)
  \/ ExitFinalize(p)
  \/ ExecuteAdminBatch(p)
  \/ SendReturn(p)

Next ==
  \/ \E p \in Procs : ProcStep(p)
  \/ \E p \in Procs : Cancel(p)
  \/ MergeStart
  \/ MergeComplete
  \/ Quiesce
  \/ PusheeUpdate

\* The executor calls limitTxnMaxTimestamp on the batch, under some lease.
LimitTxnMaxTimestamp ==
  /\ hpc = "entry"
  /\ \E valid \in BOOLEAN, start \in 1..MaxTs :
       LET o == limitTxnMaxTimestamp(header, txns, valid, start) IN
         /\ header' = o.header
         /\ txns' = o.txns
         /\ leaseSt' = [valid |-> valid, start |-> start]
  /\ hpc' = "limited"
  /\ UNCHANGED <<ba, knobs, gateway, preSteps, recorded, respFilter, pushHdr, pc, ctxDone, spans, br, pErr, cleanup,
                 fin, lg, nExec, budget, path, merging, mergeCh, quiescing,
                 twq, pusheeDone, granted, overtaken, staleCtx, cancelAt,
                 resolved, nAcq, nRel, adminSteps, oneWIE>>

\* handleWriteIntentError prepares the header for the push (lines 243-274).
PushHeader ==
  /\ hpc \in {"entry", "limited"}
  /\ LET o == pushHeader(ba[1], header, txns) IN
       /\ pushHdr' = o.h
       /\ txns' = o.txns
       /\ hpc' = IF o.ok THEN "pushed" ELSE "fatal"
  /\ UNCHANGED <<ba, knobs, gateway, leaseSt, preSteps, recorded, respFilter, header, pc, ctxDone, spans, br, pErr, cleanup,
                 fin, lg, nExec, budget, path, merging, mergeCh, quiescing,
                 twq, pusheeDone, granted, overtaken, staleCtx, cancelAt,
                 resolved, nAcq, nRel, adminSteps, oneWIE>>

NextHeader == LimitTxnMaxTimestamp \/ PushHeader

\* One call's header through limitTxnMaxTimestamp and the write-intent
\* handler, over every header, transaction record and lease.
SpecHeader == InitHeader /\ [][NextHeader]_vars

\* One caller over every input.
Spec == Init /\ [][Next]_vars

\* Two concurrent callers, every interleaving.
SpecConc == InitConc /\ [][Next]_vars

\* Two concurrent callers of which caller 1 keeps running: a goroutine that
\* can take a step eventually takes it.  Caller 2 may stop anywhere (its
\* executor may never return), and no event of the environment is promised.
FairSpec == InitFair /\ [][Next]_vars /\ WF_vars(ProcStep(1))

\* The same, where in addition a merge in progress eventually completes and
\* a pushee that pushers wait for is eventually updated.
FairEnvSpec ==
  /\ InitFair /\ [][Next]_vars
  /\ WF_vars(ProcStep(1))
  /\ WF_vars(MergeComplete)
  /\ WF_vars(PusheeUpdate)

(***************************************************************************)
(* Properties.                                                             *)
(***************************************************************************)
\* The call went through the retry loop.
InLoopPath(p) == path[p] \in {"read", "write"}

\* The suspension points of the loop.
SuspensionPoints == {"latch", "waitq", "merge"}

\* No request of one batch names a key of the other.
BatchesDisjoint(b, c) ==
  \A i \in 1..Len(b.reqs), j \in 1..Len(c.reqs) : b.reqs[i].key # c.reqs[j].key

\* C1: a batch that mixes read-only and read-write requests is rejected by
\* Send with a validation error: it never reaches the retry loop, never
\* acquires a latch and never has an executor invoked.
C1_MixedBatchRejected ==
  \A p \in Procs :
    IsMixed(ba[p]) =>
      /\ lg[p] = 0
      /\ nExec[p] = 0
      /\ pc[p] \in {"off", "send", "done"}
      /\ (pc[p] = "done" => pErr[p].origin = "checkBatchRequest")

\* C2: two concurrent calls whose batches touch a common key, one of them
\* writing it, never have their executors running at the same time, and no
\* executor begins before that of a conflicting call granted its guard
\* earlier.
C2_ConflictingCallsSerialized ==
  /\ ~overtaken
  /\ \A p, q \in Procs :
       (p # q /\ BatchesConflict(ba[p], ba[q])) =>
          ~(pc[p] = "exec" /\ pc[q] = "exec")

\* A conflicting caller, already retrying, waits for its latches while the
\* other caller's executor runs.
C2_Witness ==
  \E p, q \in Procs :
    /\ p # q /\ BatchesConflict(ba[p], ba[q])
    /\ pc[p] = "exec"
    /\ LatchBlocked(q) /\ nExec[q] > 0

C4_CancelledCallNeverSucceeds ==
  \A p \in Procs :
    (pc[p] = "done" /\ InLoopPath(p) /\ ctxDone[p]) =>
       (pErr[p].kind = "Canceled" /\ ~br[p].set)

\* C4, amended: an iteration that begins with the context already cancelled
\* ends there with a cancellation error and no response, reaching neither
\* the wait-queue check, the latches nor the executor; and a cancellation
\* error is only ever produced for a cancelled context and ends the call.
C4_CancelledIterationEnds ==
  \A p \in Procs :
    /\ staleCtx[p] =>
         /\ pc[p] \in {"defer", "sendret", "done"}
         /\ pErr[p].kind = "Canceled"
         /\ ~br[p].set
    /\ pErr[p].kind = "Canceled" =>
         /\ ctxDone[p]
         /\ pc[p] \in {"defer", "sendret", "done"}
         /\ ~br[p].set

\* A call cancelled during its first attempt came back to the top of the
\* loop and returned from there.
C4_Witness == staleCtx[1] /\ pc[1] = "done" /\ nExec[1] >= 1

\* C5 as stated: a call cancelled while blocked at a suspension point
\* returns a cancellation error.
C5_CancelledWaitReturnsCancellation ==
  \A p \in Procs :
    (Returned(p) /\ cancelAt[p] \in SuspensionPoints) =>
       pErr[p].kind = "Canceled"

\* C5, amended: a call cancelled while blocked at a suspension point
\* eventually returns, whatever the other caller and the range do; when it
\* was waiting for a merge, it returns a cancellation error or, when the
\* store shuts down as well, a node-unavailable error.
C5_CancelledWaitEnds ==
  /\ (cancelAt[1] \in SuspensionPoints) ~> Returned(1)
  /\ [](\A p \in Procs :
          (Returned(p) /\ cancelAt[p] = "merge") =>
             pErr[p].kind \in {"Canceled", "NodeUnavailableError"})

\* A call cancelled while it waited for its latches returned the latch
\* manager's cancellation error.
C5_Witness ==
  pc[1] = "done" /\ cancelAt[1] = "latch" /\ pErr[1].origin = "latch"

\* C6: no cleanup handle is ever finalized twice, and once a call has left
\* the retry loop every handle the intent resolver gave it has been
\* finalized.
C6_HandlesFinalizedOnce ==
  \A p \in Procs :
    \A h \in 1..Len(fin[p]) :
      /\ fin[p][h] # "twice"
      /\ (pc[p] \in {"sendret", "done", "panic"} => fin[p][h] # "held")

\* A call returned after the resolver gave it two handles.
C6_Witness == pc[1] = "done" /\ Len(fin[1]) = 2

\* C7: Send returns a response and no error, or an error and no response.
C7_ResponseXorError ==
  \A p \in Procs :
    pc[p] = "done" => (br[p].set <=> pErr[p] = NoErr)

C9_AmbiguousLikeSuccess ==
  \A p \in Procs :
    /\ pc[p] = "ir" =>
         \A h \in BOOLEAN :
           WIEOutcome(p, h, "AmbiguousResultError") = WIEOutcome(p, h, "nil")
    /\ pc[p] = "rec" =>
         ICEOutcome(p, "AmbiguousResultError") = ICEOutcome(p, "nil")
    /\ resolved[p] \in {"nil", "AmbiguousResultError"} =>
         (pc[p] = "top" /\ pErr[p] = NoErr /\ ~br[p].set /\ lg[p] = 0)

\* The resolver reported an ambiguous result along with a handle, and the
\* call is about to retry.
C9_Witness ==
  pc[1] = "top" /\ resolved[1] = "AmbiguousResultError" /\ cleanup[1] # 0

\* C10: no error the call holds or returns is an Ambiguous-Result error
\* built from what the intent resolver or the commit recovery reported.
C10_AmbiguityNeverSurfaces ==
  \A p \in Procs :
    ~(pErr[p].kind = "AmbiguousResultError"
      /\ pErr[p].origin \in {"resolver", "recovery"})

\* Conflict resolution reported an ambiguous result and gave no handle; the
\* handler left no error behind and the call is about to retry.
C10_Witness ==
  /\ pc[1] = "top" /\ resolved[1] = "AmbiguousResultError"
  /\ cleanup[1] = 0 /\ Len(fin[1]) = 0 /\ pErr[1] = NoErr

\* The handlers that stop or resume the loop after a blocking call: the
\* caller waits for the intent resolver, the commit recovery or the merge.
InHandler(p) == pc[p] \in {"ir", "rec", "merge"}

\* C11: an error with which a conflict handler stops the retry loop carries
\* the request index of the conflict error the executor returned: the
\* error the handler was given while it waited keeps its index when the
\* handler returns, and a conflict error returned as it is names a request.
C11_HandlerErrorsKeepIndex ==
  [][\A p \in Procs :
       /\ (InHandler(p) /\ pc'[p] = "defer") =>
             pErr'[p].index = pErr[p].index
       /\ (pc[p] = "exec" /\ pc'[p] = "defer"
           /\ pErr'[p].kind \in ConflictKinds) =>
             pErr'[p].index \in 1..Len(ba[p].reqs)]_vars

\* The calls executeAdminBatch made for caller p.
AdminCalls(p) == {adminSteps[p][i] : i \in 1..Len(adminSteps[p])}

\* C12: an admin batch with more than one request is rejected by
\* executeAdminBatch with an error and no response, before the lease is
\* asked for, before checkExecutionCanProceed and before any handler.
C12_MultiOpAdminRejected ==
  \A p \in Procs :
    (path[p] = "admin" /\ Len(ba[p].reqs) > 1
     /\ pc[p] \in {"sendret", "done"}) =>
       /\ adminSteps[p] = << >>
       /\ pErr[p].origin = "adminBatchSize"
       /\ ~br[p].set

\* A batch of two admin requests (or of a read and an admin request) came
\* back from the admin executor.
C12_Witness ==
  /\ pc[1] = "done" /\ path[1] = "admin" /\ Len(ba[1].reqs) = 2
  /\ pErr[1].origin = "adminBatchSize"

\* C13: a call on the admin path collects no spans, acquires no latch and
\* invokes no batch executor; an admin handler runs only after the lease was
\* obtained and checkExecutionCanProceed passed, in that order; an error of
\* the lease or of checkExecutionCanProceed is the error returned, with no
\* handler run and no response.
C13_AdminNeedsLeaseNoLatch ==
  \A p \in Procs :
    /\ path[p] = "admin" =>
         (lg[p] = 0 /\ nAcq[p] = 0 /\ nExec[p] = 0 /\ spans[p] = {})
    /\ "handler" \in AdminCalls(p) =>
         adminSteps[p] = <<"leaseOk", "canProceedOk", "handler">>
    /\ "leaseErr" \in AdminCalls(p) =>
         (adminSteps[p] = <<"leaseErr">> /\ pErr[p].origin = "lease"
          /\ ~br[p].set)
    /\ "canProceedErr" \in AdminCalls(p) =>
         (adminSteps[p] = <<"leaseOk", "canProceedErr">>
          /\ pErr[p].origin = "canProceed" /\ ~br[p].set)
    /\ adminSteps[p] # << >> => path[p] = "admin"

\* A single admin request was stopped by checkExecutionCanProceed.
C13_Witness ==
  /\ pc[1] = "done" /\ adminSteps[1] = <<"leaseOk", "canProceedErr">>
  /\ pErr[1].origin = "canProceed"

\* Send refused the batch before dispatching it: the origins of the errors
\* of validation and of the pre-execution steps.
PreDispatchOrigins ==
  {"checkBatchRequest", "backpressure", "strip", "requestFilter"}

\* Caller p has gone through the first step of Send.
Started(p) == pc[p] \notin {"off", "send"}

\* C14 as stated: Send of an empty batch always ends in the fatal outcome.
C14_EmptyBatchAlwaysFatal ==
  \A p \in Procs :
    (Started(p) /\ Len(ba[p].reqs) = 0) => pc[p] = "fatal"

\* C14, amended: Send of an empty batch ends in the fatal outcome, with no
\* response, no error and nothing executed, unless validation or a
\* pre-execution step refuses the batch first; validation refuses it
\* exactly when it has no timestamp or is not CONSISTENT.
C14_EmptyBatchFatalOrRefused ==
  \A p \in Procs :
    (Started(p) /\ Len(ba[p].reqs) = 0) =>
      /\ ~br[p].set /\ nExec[p] = 0 /\ nAcq[p] = 0 /\ adminSteps[p] = << >>
      /\ \/ pc[p] = "fatal" /\ pErr[p] = NoErr
         \/ pc[p] = "done" /\ pErr[p].origin \in PreDispatchOrigins
      /\ (pErr[p].origin = "checkBatchRequest"
            <=> (ba[p].ts = 0 \/ ba[p].cons # "CONSISTENT"))

\* An empty batch with a timestamp reached the dispatcher.
C14_Witness ==
  pc[1] = "fatal" /\ Len(ba[1].reqs) = 0 /\ ba[1].ts # 0

\* The path the dispatcher is to take for a batch.
ExpectedPath(b) ==
  CASE ~IsReadOnly(b) /\ IsWrite(b) -> "write"
    [] IsReadOnly(b) -> "read"
    [] ~IsReadOnly(b) /\ ~IsWrite(b) /\ IsAdmin(b) -> "admin"
    [] OTHER -> "fatal"

\* C15: a batch that passes validation and the pre-execution steps takes
\* exactly one path: the retry loop with the write executor when it is not
\* read-only and has a write, the retry loop with the read executor when it
\* is read-only, the admin executor when it is administrative, otherwise
\* the fatal outcome; a batch on the loop's path never reaches the admin
\* executor, one on the admin path never reaches a batch executor, and the
\* fatal outcome executes nothing.
C15_OneDispatchPath ==
  \A p \in Procs :
    Started(p) =>
      /\ IF pErr[p].origin \in PreDispatchOrigins
           THEN path[p] = "none" /\ pc[p] = "done"
           ELSE path[p] = ExpectedPath(ba[p])
      /\ path[p] \in {"read", "write"} => adminSteps[p] = << >>
      /\ path[p] \in {"admin", "fatal", "none"} =>
           (nExec[p] = 0 /\ nAcq[p] = 0)
      /\ path[p] \in {"fatal", "none"} => adminSteps[p] = << >>
      /\ (pc[p] = "fatal" <=> path[p] = "fatal")
      /\ pc[p] = "admin" => path[p] = "admin"
      /\ pc[p] \in {"loop", "top", "waitq", "latch", "fn", "exec", "ir",
                    "rec", "mipe", "merge", "defer"} => InLoopPath(p)

\* A batch of a write and an admin request took the write path.
C15_Witness ==
  /\ path[1] = "write" /\ IsAdmin(ba[1]) /\ pc[1] = "done"

\* When checkBatchRequest is to refuse a batch.
ValidationRejects(b) ==
  \/ b.ts = 0
  \/ IsReadOnly(b) /\ b.cons # "CONSISTENT" /\ b.txn
  \/ ~IsReadOnly(b) /\ b.cons # "CONSISTENT"

ExecResponses(p) == {r.br : r \in {x \in ExecResults(p) : x.pErr = NoErr}}

\* The executor's first attempt has returned without error to caller p.
FirstAttemptSucceeded(p) ==
  /\ pc[p] \in {"defer", "sendret", "done"}
  /\ nExec[p] = 1 /\ br[p].set /\ br[p].from = "exec"

\* C17: when the executor returns no error on the first attempt, the loop
\* returns the executor's response; by then one latch guard was acquired,
\* the executor ran once and the guard was released once, and none of that
\* changes while the call returns.
C17_FirstAttemptSuccess ==
  [][\A p \in Procs :
       /\ (pc[p] = "exec" /\ nExec[p] = 1 /\ pc'[p] = "defer"
             /\ pErr'[p] = NoErr) =>
            /\ br'[p] \in ExecResponses(p)
            /\ FirstAttemptSucceeded(p)'
            /\ nAcq'[p] = 1 /\ nRel'[p] = 1 /\ lg'[p] = 0
       /\ FirstAttemptSucceeded(p) =>
            /\ br'[p] = br[p] /\ nExec'[p] = 1
            /\ nAcq'[p] = 1 /\ nRel'[p] = 1 /\ lg'[p] = 0
            /\ pc'[p] \in {"defer", "sendret", "done"}]_vars

\* A call whose first attempt succeeded has returned.
C17_Witness ==
  /\ FirstAttemptSucceeded(1) /\ pc[1] = "done" /\ pErr[1] = NoErr
  /\ nAcq[1] = 1 /\ nRel[1] = 1

\* The executor reported one WriteIntentError to caller p, the resolver
\* resolved it without error, the retry succeeded, and the loop returned.
OneCleanWIEThenSuccess(p) ==
  /\ oneWIE[p] /\ pc[p] \in {"sendret", "done"}
  /\ br[p].set /\ br[p].from = "exec"

\* The finalize calls made on the handles of caller p.
FinalizeCalls(p) == {i \in 1..Len(fin[p]) : fin[p][i] # "held"}

\* C18 as stated: one cleanly resolved WriteIntentError and a successful
\* retry make two executor invocations and exactly one finalize call.
C18_OneFinalizeCall ==
  \A p \in Procs :
    OneCleanWIEThenSuccess(p) =>
      /\ nExec[p] = 2
      /\ Cardinality(FinalizeCalls(p)) = 1
      /\ \A i \in FinalizeCalls(p) : fin[p][i] \in {"txn", "nil"}

\* C18, amended: one cleanly resolved WriteIntentError and a successful
\* retry make two executor invocations, each under its own guard, and the
\* response is one the executor gives without a conflict; the handle the
\* resolver returned is finalized once, by the loop's exit, and when the
\* resolver returned no handle there is no finalize call.
C18_TwoAttemptsHandleFinalized ==
  \A p \in Procs :
    OneCleanWIEThenSuccess(p) =>
      /\ nExec[p] = 2 /\ nAcq[p] = 2 /\ nRel[p] = 2 /\ lg[p] = 0
      /\ br[p] \in {Resp(st, "exec") :
                      st \in IF ba[p].txn THEN {"PENDING", "COMMITTED"}
                                          ELSE {"nil"}}
      /\ Len(fin[p]) <= 1
      /\ FinalizeCalls(p) = 1..Len(fin[p])
      /\ \A i \in FinalizeCalls(p) : fin[p][i] \in {"txn", "nil"}
      /\ (Len(fin[p]) = 1 <=> cleanup[p] = 1)

\* Such a call returned after finalizing the resolver's handle with the
\* transaction of the response.
C18_Witness ==
  /\ OneCleanWIEThenSuccess(1) /\ pc[1] = "done"
  /\ fin[1] = <<"txn">> /\ nExec[1] = 2

\* C19: when handleMergeInProgressError finds no merge channel it returns
\* at once and the loop retries: the handler is never blocked there, and its
\* step leaves no error and goes to the top of the loop, whether or not the
\* context is cancelled or the store is shutting down.
C19_NilMergeChannelRetries ==
  /\ [](\A p \in Procs :
          pc[p] = "mipe" => ENABLED HandleMergeInProgressError(p))
  /\ [][\A p \in Procs :
          (pc[p] = "mipe" /\ ~merging /\ pc'[p] # "mipe") =>
             /\ pc'[p] = "top" /\ pErr'[p] = NoErr
             /\ mergeCh'[p] = "none" /\ lg'[p] = 0
             /\ nExec'[p] = nExec[p] /\ fin'[p] = fin[p]]_vars

\* The handler found no merge channel and signalled retry although the
\* context was cancelled and the store was shutting down.
C19_Witness ==
  /\ pc[1] = "top" /\ resolved[1] = "mergeGone" /\ pErr[1] = NoErr
  /\ ctxDone[1] /\ quiescing

\* A TransactionPushError of this batch is not to be retried: the knob is
\* set, or the batch is a single PushTxn that must push immediately.
NonRetryablePush(b) ==
  \/ knobs.dontRetryPush
  \/ IsSinglePushTxnRequest(b) /\ b.reqs[1].imm

\* The TransactionPushErrors the executor can report to caller p.
ExecPushErrors(p) ==
  {r.pErr : r \in {x \in ExecResults(p) :
                     x.pErr.kind = "TransactionPushError"}}

\* C20: a TransactionPushError that is not to be retried leaves the handler
\* as the executor returned it, nothing is enqueued on the txnWaitQueue and
\* the loop returns that error with no further executor invocation; a
\* TransactionPushError ends the loop only in that case.
C20_NonRetryablePushFails ==
  /\ [](\A p \in Procs :
          pErr[p].kind = "TransactionPushError" =>
            /\ pc[p] \in {"defer", "sendret", "done"}
            /\ NonRetryablePush(ba[p]) /\ pErr[p].origin = "exec"
            /\ ~br[p].set /\ lg[p] = 0)
  /\ [][\A p \in Procs :
          /\ (pc[p] = "exec" /\ pc'[p] # "exec" /\ NonRetryablePush(ba[p])) =>
               /\ pc'[p] # "top" /\ twq' = twq
               /\ pErr'[p] = NoErr \/ pErr'[p] \in {r.pErr : r \in ExecResults(p)}
          /\ (pc[p] = "exec" /\ pc'[p] = "defer"
                /\ pErr'[p].kind = "TransactionPushError") =>
               pErr'[p] \in ExecPushErrors(p)
          /\ pErr[p].kind = "TransactionPushError" =>
               (pErr'[p] = pErr[p] /\ nExec'[p] = nExec[p])]_vars

\* A single PushTxn that must push immediately got a TransactionPushError
\* on its first attempt and the call returned it, the queue left empty.
C20_Witness ==
  /\ pc[1] = "done" /\ pErr[1].kind = "TransactionPushError"
  /\ ~knobs.dontRetryPush /\ nExec[1] = 1 /\ ~twq

\* The errors the executor can report to caller p that are none of the four
\* conflicts.
ExecOtherErrors(p) ==
  {r.pErr : r \in {x \in ExecResults(p) :
                     x.pErr # NoErr /\ x.pErr.kind \notin ConflictKinds}}

\* Caller p holds an executor's error that is none of the four conflicts.
HoldsOtherExecError(p) ==
  /\ pErr[p] # NoErr /\ pErr[p].origin = "exec"
  /\ pErr[p].kind \notin ConflictKinds

\* C21: an executor's error that is none of the four conflicts is returned
\* by the loop as it is, at once: the executor's step goes to the loop's
\* exit, and from then on the error is kept, no handler is entered, no
\* guard is acquired and the executor is not invoked again.
C21_OtherErrorsReturned ==
  /\ [](\A p \in Procs :
          HoldsOtherExecError(p) =>
            /\ pc[p] \in {"defer", "sendret", "done"}
            /\ ~br[p].set /\ lg[p] = 0 /\ nRel[p] = nAcq[p])
  /\ [][\A p \in Procs :
          /\ (pc[p] = "exec" /\ pc'[p] = "defer" /\ HoldsOtherExecError(p)') =>
               (pErr'[p] \in ExecOtherErrors(p) /\ twq' = twq
                  /\ fin'[p] = fin[p])
          /\ (pc[p] = "exec" /\ pc'[p] # "exec"
                /\ pErr'[p] = NoErr /\ ~br'[p].set) =>
               (twq' /\ pc'[p] = "top")
          /\ HoldsOtherExecError(p) =>
               /\ pErr'[p] = pErr[p]
               /\ nExec'[p] = nExec[p] /\ nAcq'[p] = nAcq[p]]_vars

\* The retry of a call met an error that is no conflict, and the call
\* returned it.
C21_Witness ==
  /\ pc[1] = "done" /\ HoldsOtherExecError(1) /\ pErr[1].kind = "Other"
  /\ nExec[1] = 2 /\ nAcq[1] = 2

\* C22: an iteration, the first or a retry, that starts with the context
\* cancelled goes from the top of the loop straight to the loop's exit with
\* the wrapped cancellation error: the wait-queue check is entered only from
\* the top of the loop with a live context, and nothing is acquired,
\* executed or enqueued by the step.
C22_CtxCheckedFirst ==
  /\ [](\A p \in Procs :
          pErr[p].origin = "loop" =>
            /\ pErr[p] = Err("Canceled", 0, "loop")
            /\ pc[p] \in {"defer", "sendret", "done"}
            /\ ctxDone[p] /\ lg[p] = 0)
  /\ [][\A p \in Procs :
          /\ (pc[p] = "top" /\ ctxDone[p] /\ pc'[p] # "top") =>
               /\ pc'[p] = "defer"
               /\ pErr'[p] = Err("Canceled", 0, "loop") /\ ~br'[p].set
               /\ nAcq'[p] = nAcq[p] /\ nExec'[p] = nExec[p]
               /\ lg'[p] = lg[p] /\ twq' = twq
          /\ (pc'[p] = "waitq" /\ pc[p] # "waitq") =>
               (pc[p] = "top" /\ ~ctxDone[p])
          /\ (pc'[p] \in {"latch", "fn", "exec"} /\ pc[p] # pc'[p]) =>
               pc[p] \in {"waitq", "latch", "fn"}]_vars

\* A retry found the context cancelled at the top of the loop.
C22_Witness ==
  /\ pc[1] = "defer" /\ pErr[1].origin = "loop"
  /\ nExec[1] = 2 /\ nAcq[1] = 2 /\ lg[1] = 0

\* The attempt that just ended left a live intent: no error, a batch with a
\* transaction that is not read-only, a response whose transaction is not
\* finalized.
LeftLiveIntent(p) ==
  /\ pErr[p] = NoErr /\ ba[p].txn
  /\ br[p].set /\ br[p].txn # "nil" /\ ~IsFinalized(br[p].txn)
  /\ ~IsReadOnly(ba[p])

\* C23: the finalize call at the loop's exit is made on the handle the call
\* holds and on no other; it passes the response's transaction exactly when
\* the attempt left a live intent, and nil and nil in every other case;
\* with no handle held there is no call.
C23_ExitFinalizeRule ==
  [][\A p \in Procs :
       (pc[p] = "defer" /\ pc'[p] = "sendret") =>
          /\ cleanup[p] = 0 => fin'[p] = fin[p]
          /\ cleanup[p] # 0 =>
               /\ fin[p][cleanup[p]] = "held"
               /\ fin'[p] = [fin[p] EXCEPT ![cleanup[p]] =
                               IF LeftLiveIntent(p) THEN "txn" ELSE "nil"]]_vars

\* A transactional write succeeded with its transaction committed; the
\* handle was finalized with nil and nil.
C23_Witness ==
  /\ pc[1] = "sendret" /\ fin[1] = <<"nil">> /\ pErr[1] = NoErr
  /\ ba[1].txn /\ ~IsReadOnly(ba[1]) /\ br[1].txn = "COMMITTED"

\* The handles of caller p that no finalize call was made on.
Unfinalized(p) == {i \in 1..Len(fin[p]) : fin[p][i] = "held"}

\* C24: while the intent resolver is being asked for a handle the call owns
\* no unfinalized one: the handler's step that reaches the resolver
\* finalizes the handle of the earlier iteration with the new conflict, and
\* makes no other finalize call.
C24_EarlierHandleFinalizedFirst ==
  /\ [](\A p \in Procs : pc[p] = "ir" => Unfinalized(p) = {})
  /\ [][\A p \in Procs :
          (pc[p] = "exec" /\ pc'[p] = "ir") =>
             /\ pErr'[p].kind = "WriteIntentError"
             /\ cleanup[p] = 0 => fin'[p] = fin[p]
             /\ cleanup[p] # 0 =>
                  /\ Unfinalized(p) = {cleanup[p]}
                  /\ fin'[p] = [fin[p] EXCEPT ![cleanup[p]] = "wie"]]_vars

\* A second WriteIntentError: the handle of the first was handed the new
\* conflict, and the resolver is being asked again.
C24_Witness ==
  /\ pc[1] = "ir" /\ fin[1] = <<"wie">> /\ nExec[1] = 2

\* What caller p holds came from maybeWaitForPushee.
FromWaitQueue(p) ==
  \/ br[p].set /\ br[p].from = "waitq"
  \/ pErr[p] # NoErr /\ pErr[p].origin = "waitq"

\* C25: latching is entered only from the wait-queue check, and only when
\* the check yielded nothing; when it yields a response or an error the
\* loop goes to its exit with that result, and no guard is acquired and no
\* executor invoked in the step or after it.
C25_WaitQueueBeforeLatch ==
  /\ [](\A p \in Procs :
          FromWaitQueue(p) =>
            (pc[p] \in {"defer", "sendret", "done", "panic"} /\ lg[p] = 0))
  /\ [][\A p \in Procs :
          /\ (pc'[p] = "latch" /\ pc[p] # "latch") =>
               (pc[p] = "waitq" /\ ~br'[p].set /\ pErr'[p] = NoErr)
          /\ (pc[p] = "waitq" /\ pc'[p] # "waitq") =>
               /\ pc'[p] \in {"latch", "defer"}
               /\ pc'[p] = "defer" <=> FromWaitQueue(p)'
               /\ nAcq'[p] = nAcq[p] /\ nExec'[p] = nExec[p]
               /\ lg'[p] = lg[p]
          /\ FromWaitQueue(p) =>
               /\ br'[p] = br[p]
               /\ nAcq'[p] = nAcq[p] /\ nExec'[p] = nExec[p]]_vars

\* A push that was queued after its first attempt was answered by the
\* wait queue, and the call returned that response.
C25_Witness ==
  /\ pc[1] = "done" /\ br[1].set /\ br[1].from = "waitq"
  /\ pErr[1] = NoErr /\ nExec[1] = 1 /\ nAcq[1] = 1

\* Caller p is inside the retry loop or at its exit.
InLoopBody(p) ==
  pc[p] \in {"top", "waitq", "latch", "fn", "exec", "ir", "rec", "mipe",
             "merge", "defer"}

\* C26: the span set is collected once, before the loop, and kept as it is
\* for every iteration; the loop runs only over a span set that was
\* collected without error, and a call whose collection failed returns
\* that error having checked no wait queue, acquired no guard, invoked no
\* executor and finalized nothing.
C26_SpansCollectedOnce ==
  /\ [](\A p \in Procs :
          /\ InLoopBody(p) =>
               /\ collectSpans(ba[p]).ok
               /\ spans[p] = collectSpans(ba[p]).set
          /\ (InLoopPath(p) /\ pc[p] # "loop" /\ ~collectSpans(ba[p]).ok) =>
               /\ pErr[p].origin = "collectSpans"
               /\ pc[p] \in {"sendret", "done"}
               /\ ~br[p].set /\ spans[p] = {}
               /\ nAcq[p] = 0 /\ nExec[p] = 0 /\ lg[p] = 0
               /\ fin[p] = << >> /\ cleanup[p] = 0
          /\ pErr[p].origin = "collectSpans" => ~collectSpans(ba[p]).ok)
  /\ [][\A p \in Procs :
          /\ spans'[p] # spans[p] => (pc[p] = "loop" /\ pc'[p] = "top")
          /\ (pc[p] = "loop" /\ pc'[p] # "loop") =>
               pc'[p] = (IF collectSpans(ba[p]).ok THEN "top" ELSE "sendret")]_vars

\* A write batch holding a request batcheval knows no command for was
\* returned the error of collectSpans.
C26_Witness ==
  /\ pc[1] = "done" /\ pErr[1].origin = "collectSpans"
  /\ path[1] = "write" /\ IsAdmin(ba[1])

\* C27: the step of the transaction-push handler enqueues the pushee
\* exactly when it sends the command back to the top of the loop with no
\* error; nothing else enqueues; a batch that is not a single PushTxn, with
\* the never-retry knob off, is never returned a TransactionPushError; and
\* from the top of the loop the next thing reached is the wait-queue check
\* or the loop's exit, never the latches.
C27_EnqueueIffRetry ==
  [][/\ \A p \in Procs :
          /\ (pc[p] = "exec" /\ pc'[p] = "top") =>
               (twq' /\ pErr'[p] = NoErr /\ ~br'[p].set
                  /\ nExec'[p] = nExec[p])
          /\ (pc[p] = "exec" /\ pc'[p] = "defer"
                /\ pErr'[p].kind = "TransactionPushError") => twq' = twq
          /\ (pc[p] = "exec" /\ pc'[p] # "exec"
                /\ ~IsSinglePushTxnRequest(ba[p]) /\ ~knobs.dontRetryPush) =>
               pErr'[p].kind # "TransactionPushError"
          /\ (pc[p] = "top" /\ pc'[p] # "top") =>
               pc'[p] \in {"waitq", "defer"}
     /\ (twq' /\ ~twq) =>
          \E p \in Procs : pc[p] = "exec" /\ pc'[p] = "top"]_vars

\* A batch that is not a single PushTxn met a TransactionPushError; the
\* pushee is enqueued and the retry is at its wait-queue check.
C27_Witness ==
  /\ pc[1] = "waitq" /\ twq /\ nExec[1] = 1 /\ nAcq[1] = 1
  /\ ~IsSinglePushTxnRequest(ba[1]) /\ ~knobs.dontRetryPush

\* The IndeterminateCommitErrors the executor can report to caller p.
ExecCommitErrors(p) ==
  {r.pErr : r \in {x \in ExecResults(p) :
                     x.pErr.kind = "IndeterminateCommitError"}}

\* C28: with recovery disabled an IndeterminateCommitError goes to the
\* loop's exit as the executor returned it and the recovery manager is not
\* called; otherwise the manager is called, once for that error, and when
\* it reports success or an ambiguous result the command retries with no
\* error, while any other error it reports is returned as a new error with
\* the index of the original one.
C28_IndeterminateCommitOutcome ==
  /\ [](\A p \in Procs :
          pc[p] = "rec" =>
            /\ ~knobs.dontRecover /\ lg[p] = 0
            /\ pErr[p].kind = "IndeterminateCommitError"
            /\ pErr[p].origin = "exec")
  /\ [][\A p \in Procs :
          /\ (pc[p] = "exec" /\ pc'[p] # "exec"
                /\ pErr'[p].kind = "IndeterminateCommitError") =>
               /\ pErr'[p] \in ExecCommitErrors(p)
               /\ pc'[p] = (IF knobs.dontRecover THEN "defer" ELSE "rec")
          /\ (pc'[p] = "rec" /\ pc[p] # "rec") => pc[p] = "exec"
          /\ (pc[p] = "rec" /\ pc'[p] # "rec") =>
               /\ nExec'[p] = nExec[p] /\ fin'[p] = fin[p]
               /\ cleanup'[p] = cleanup[p]
               /\ IF resolved'[p] \in {"nil", "AmbiguousResultError"}
                    THEN pc'[p] = "top" /\ pErr'[p] = NoErr
                    ELSE /\ pc'[p] = "defer" /\ ~br'[p].set
                         /\ pErr'[p] =
                              Err(resolved'[p], pErr[p].index, "recovery")]_vars

\* The recovery of a commit met by the second request of a batch failed;
\* the call returned the new error with index 2.
C28_Witness ==
  /\ pc[1] = "done" /\ pErr[1].origin = "recovery"
  /\ pErr[1].index = 2 /\ resolved[1] = "Other"

\* The select of the merge handler returns for caller p as one of its
\* ready cases says.
MergeSelectReturns(p) ==
  \/ mergeCh[p] = "closed" /\ pc'[p] = "top" /\ pErr'[p] = NoErr
  \/ ctxDone[p] /\ pc'[p] = "defer"
       /\ pErr'[p] = Err("Canceled", 0, "merge")
  \/ quiescing /\ pc'[p] = "defer"
       /\ pErr'[p] = Err("NodeUnavailableError", 0, "merge")

\* The wait of the merge handler: blocked until the channel is closed, the
\* context cancelled or the store quiescing; then it returns as a ready
\* case says, with no executor invocation; and a retry that starts with
\* the context cancelled ends at the top of the loop.
MergeWaitBehaves ==
  /\ [](\A p \in Procs :
          pc[p] = "merge" =>
            (ENABLED MergeWait(p)
               <=> (mergeCh[p] = "closed" \/ ctxDone[p] \/ quiescing)))
  /\ [][\A p \in Procs :
          /\ (pc[p] = "merge" /\ pc'[p] # "merge") =>
               (MergeSelectReturns(p) /\ nExec'[p] = nExec[p]
                  /\ nAcq'[p] = nAcq[p])
          /\ (pc[p] = "top" /\ ctxDone[p] /\ pc'[p] # "top") =>
               (pc'[p] = "defer" /\ pErr'[p].kind = "Canceled"
                  /\ nExec'[p] = nExec[p])]_vars

\* C29 as stated: the wait behaves so, and when the channel is closed while
\* the context is cancelled the call ends with a cancellation error.
C29_ClosedAndCancelledIsCancellation ==
  /\ MergeWaitBehaves
  /\ [][\A p \in Procs :
          (pc[p] = "merge" /\ mergeCh[p] = "closed" /\ ctxDone[p]
             /\ pc'[p] # "merge") =>
            \/ pc'[p] = "top" /\ ctxDone'[p]
            \/ pc'[p] = "defer" /\ pErr'[p].kind = "Canceled"]_vars

\* C29, amended: the wait behaves so, and when the channel is closed while
\* the context is cancelled the call ends with a cancellation error, or,
\* when the store is quiescing as well, possibly with a node-unavailable
\* error; the executor is not invoked again in either case.
C29_MergeWaitOutcomes ==
  /\ MergeWaitBehaves
  /\ [][\A p \in Procs :
          (pc[p] = "merge" /\ mergeCh[p] = "closed" /\ ctxDone[p]
             /\ pc'[p] # "merge") =>
            /\ nExec'[p] = nExec[p]
            /\ \/ pc'[p] = "top" /\ ctxDone'[p]
               \/ pc'[p] = "defer" /\ pErr'[p].kind = "Canceled"
               \/ pc'[p] = "defer" /\ quiescing
                    /\ pErr'[p].kind = "NodeUnavailableError"]_vars

\* A call cancelled while it waited for the merge took the closed channel
\* out of the select and was stopped at the top of the loop.
C29_Witness ==
  /\ pc[1] = "done" /\ cancelAt[1] = "merge" /\ pErr[1].origin = "loop"
  /\ pErr[1].kind = "Canceled" /\ nExec[1] = 1

\* C30: no step writes to a transaction record that exists already: records
\* are only added.  The write-intent handler leaves the batch's header as
\* it is and hands the resolver a record of its own; limitTxnMaxTimestamp
\* leaves the header's timestamp as it is, and when MaxTimestamp is to
\* change, the change is made on a record added by the step, which the
\* header then points to.
C30_SharedRecordsUntouched ==
  [][/\ Len(txns') >= Len(txns)
     /\ \A a \in 1..Len(txns) : txns'[a] = txns[a]
     /\ hpc' \in {"pushed", "fatal"} =>
          /\ header' = header
          /\ (hpc' = "pushed" /\ header.txn # 0) =>
               /\ pushHdr'.txn = Len(txns) + 1
               /\ Len(txns') = Len(txns) + 1
     /\ hpc' = "limited" =>
          /\ header'.ts = header.ts
          /\ header'.txn # header.txn =>
               /\ header'.txn = Len(txns) + 1
               /\ Len(txns') = Len(txns) + 1
               /\ txns'[header'.txn].max < txns[header.txn].max
          /\ header'.txn = header.txn => txns' = txns]_vars

\* limitTxnMaxTimestamp lowered MaxTimestamp on a clone, the handler cloned
\* the record again for the push, and the record at address 1 is as it was
\* on entry, above the lowered MaxTimestamp.
C30_Witness ==
  /\ hpc = "pushed" /\ Len(txns) = 3 /\ header.txn = 2 /\ pushHdr.txn = 3
  /\ txns[2].max < txns[1].max /\ pushHdr.ts > header.ts

\* The greater and the smaller of two timestamps.
MaxOf(t, u) == IF t >= u THEN t ELSE u
MinOf(t, u) == IF t <= u THEN t ELSE u

\* C31: the header handed to the intent resolver has the greater of the
\* batch's timestamp and the timestamp observed from the replica's node when
\* the batch has a transaction, and the batch's timestamp when it has none;
\* the push type is PUSH_ABORT for a write batch and PUSH_TIMESTAMP for any
\* other.  (A transaction without an observed timestamp is fatal: nothing
\* is handed over.)
C31_PushHeaderTimestamp ==
  /\ hpc = "pushed" =>
       /\ pushHdr.ts = (IF header.txn # 0
                          THEN MaxOf(header.ts, txns[header.txn].obs)
                          ELSE header.ts)
       /\ pushHdr.pushType = (IF IsWrite(ba[1]) THEN "PUSH_ABORT"
                                                ELSE "PUSH_TIMESTAMP")
       /\ header.txn # 0 => txns[header.txn].obs # 0
  /\ hpc = "fatal" => (header.txn # 0 /\ txns[header.txn].obs = 0)

\* A transactional read whose node observed a later timestamp: the push
\* header is forwarded to it and the push is a timestamp push.
C31_Witness ==
  /\ hpc = "pushed" /\ header.txn # 0 /\ pushHdr.ts > header.ts
  /\ pushHdr.ts = txns[header.txn].obs /\ pushHdr.pushType = "PUSH_TIMESTAMP"

\* C32: once the dispatched branch has returned, an installed response
\* filter is given the final response whether the branch ended in success
\* or in an error, and what the filter returns is the error of Send.
C32_ResponseFilterAlwaysGiven ==
  \A p \in Procs :
    (pc[p] = "done" /\ path[p] \in {"read", "write", "admin"}) =>
      /\ respFilter[p] \in {"absent", "nil", "err"}
      /\ respFilter[p] = "nil" => pErr[p] = NoErr
      /\ respFilter[p] = "err" => pErr[p] = Err("Other", 0, "responseFilter")

\* C33: the pre-execution steps are asked in the order validation,
\* backpressure, in-flight-write stripping, request filter; the first error
\* is returned at once, so that no later step is asked and nothing is
\* dispatched: no spans, no latch, no executor, no response filter.
C33_PreExecutionOrder ==
  \A p \in Procs :
    LET order == <<"checkBatchRequest", "backpressure", "strip",
                   "requestFilter">>
    IN /\ pc[p] \in {"off", "send"} => preSteps[p] = << >>
       /\ pc[p] \notin {"off", "send"} =>
            /\ \E n \in 1..4 : preSteps[p] = SubSeq(order, 1, n)
            /\ path[p] # "none" => (preSteps[p] = order /\ pc[p] # "send")
            /\ path[p] = "none" =>
                 /\ pc[p] = "done"
                 /\ pErr[p] # NoErr
                 /\ pErr[p].origin = preSteps[p][Len(preSteps[p])]
                 /\ br[p] = NoBr
                 /\ spans[p] = {} /\ nAcq[p] = 0 /\ nExec[p] = 0
                 /\ adminSteps[p] = << >>
                 /\ respFilter[p] = "none"
                 /\ recorded[p] \subseteq {"gateway"}

\* The request filter refused a batch that passed the three steps before it.
C33_Witness ==
  /\ pc[1] = "done" /\ path[1] = "none"
  /\ Len(preSteps[1]) = 4 /\ pErr[1].origin = "requestFilter"
  /\ ba[1].reqs = <<Req("Put", 1)>>

\* C34: for every batch the dispatcher is given, the gateway's load and the
\* load-based-splitting signal are both recorded by the time the dispatcher
\* has chosen the read, write or admin path.
C34_LoadRecordedBeforeBranch ==
  \A p \in Procs :
    path[p] \in {"read", "write", "admin"} =>
      recorded[p] = {"gateway", "split"}

\* C37: whenever the exit finalizer comes to read the response's
\* transaction status (a handle is held, there is no error and the batch
\* has a transaction), there is a response and it carries a transaction,
\* also when the response is the wait queue's.
C37_FinalizerReadsResponseTxn ==
  \A p \in Procs :
    (pc[p] = "defer" /\ cleanup[p] # 0 /\ pErr[p] = NoErr /\ ba[p].txn) =>
      (br[p].set /\ br[p].txn # "nil")

\* What ended the call of caller p, once it has returned from the loop.
NonConflictResult(p) ==
  \/ br[p].set /\ br[p].from = "exec"
  \/ pErr[p].origin = "exec" /\ pErr[p].kind \notin ConflictKinds
UnresolvedConflict(p) ==
  \/ pErr[p].origin \in {"resolver", "recovery"}
  \/ /\ pErr[p].origin = "exec"
     /\ \/ pErr[p].kind = "WriteIntentError" /\ knobs.dontPush
        \/ pErr[p].kind = "TransactionPushError" /\ NonRetryablePush(ba[p])
        \/ pErr[p].kind = "IndeterminateCommitError" /\ knobs.dontRecover
CancelledCall(p) == pErr[p].kind = "Canceled" /\ ctxDone[p]
NeverLooped(p) == pErr[p].origin = "collectSpans"
ShutDownInMergeWait(p) ==
  pErr[p] = Err("NodeUnavailableError", 0, "merge") /\ quiescing

C36_OneHandleOwned ==
  /\ [](\A p \in Procs :
          /\ Cardinality(Unfinalized(p)) <= 1
          /\ Unfinalized(p) # {} => Unfinalized(p) = {cleanup[p]})
  /\ [][\A p \in Procs :
          /\ (fin'[p] # fin[p] \/ cleanup'[p] # cleanup[p]) =>
               \/ /\ pc[p] = "exec" /\ pc'[p] = "ir"
                  /\ pErr'[p].kind = "WriteIntentError"
               \/ pc[p] = "ir"
               \/ pc[p] = "defer"
          /\ ( \/ pc[p] \in {"rec", "mipe", "merge"}
               \/ /\ pc[p] = "exec"
                  /\ pErr'[p].kind \in ConflictKinds \ {"WriteIntentError"} ) =>
               (fin'[p] = fin[p] /\ cleanup'[p] = cleanup[p])]_vars

\* A call waits for a merge while it holds the handle of an earlier
\* write-intent conflict.
C36_Witness ==
  /\ pc[1] = "merge" /\ cleanup[1] = 1 /\ fin[1] = <<"held">>

\* The WriteIntentErrors the executor can report to caller p.
ExecWriteIntentErrors(p) ==
  {r.pErr : r \in {x \in ExecResults(p) : x.pErr.kind = "WriteIntentError"}}

\* C38: with DontPushOnWriteIntentError set the write-intent handler returns
\* the executor's error and the handle it was given as they are: the
\* resolver is not invoked (so that the call never comes to own a handle)
\* and nothing is finalized in the handler; the loop goes to its exit with
\* that error and invokes no further executor, and the exit finalizer
\* finalizes a held handle with nil and nil.  A WriteIntentError is
\* returned by the loop in this case only.
C38_DontPushReturnsAtOnce ==
  /\ [](\A p \in Procs :
          /\ knobs.dontPush =>
               (pc[p] # "ir" /\ fin[p] = << >> /\ cleanup[p] = 0)
          /\ (pErr[p].kind = "WriteIntentError" /\ pc[p] # "ir") =>
               /\ knobs.dontPush
               /\ pc[p] \in {"defer", "sendret", "done"}
               /\ pErr[p].origin = "exec" /\ ~br[p].set
               /\ lg[p] = 0)
  /\ [][\A p \in Procs :
          /\ ( /\ knobs.dontPush /\ pc[p] = "exec" /\ pc'[p] # "exec"
               /\ pErr'[p].kind = "WriteIntentError" ) =>
               /\ pc'[p] = "defer"
               /\ pErr'[p] \in ExecWriteIntentErrors(p)
               /\ fin'[p] = fin[p] /\ cleanup'[p] = cleanup[p]
          /\ (pErr[p].kind = "WriteIntentError" /\ pc[p] # "ir") =>
               /\ pErr'[p] = pErr[p]
               /\ nExec'[p] = nExec[p] /\ nAcq'[p] = nAcq[p]
          /\ ( /\ pErr[p].kind = "WriteIntentError" /\ pc[p] = "defer"
               /\ pc'[p] # "defer" ) =>
               /\ pc'[p] = "sendret"
               /\ cleanup[p] = 0 => fin'[p] = fin[p]
               /\ cleanup[p] # 0 =>
                    fin'[p] = [fin[p] EXCEPT ![cleanup[p]] = "nil"]]_vars

\* With the knob set, a write met an intent on its first attempt and Send
\* returned the executor's WriteIntentError.
C38_Witness ==
  /\ knobs.dontPush /\ pc[1] = "done" /\ nExec[1] = 1
  /\ pErr[1].kind = "WriteIntentError" /\ pErr[1].origin = "exec"
  /\ fin[1] = << >> /\ respFilter[1] = "unasked"

\* C39: when the resolver returns an error that is not ambiguous, the
\* handler gives the loop the handle that came with it (or none when none
\* came), the handle of the earlier iteration having been finalized in the
\* handler; the exit finalizer then finalizes the new handle once, with nil
\* and nil, and makes no call on the earlier one.
C39_ResolverErrorHandleFinalized ==
  /\ [][\A p \in Procs :
          /\ (pc[p] = "ir" /\ pc'[p] = "defer") =>
               /\ pErr'[p].origin = "resolver"
               /\ pErr'[p].kind \notin {"nil", "AmbiguousResultError"}
               /\ Unfinalized(p) = {}
               /\ \/ fin'[p] = fin[p] /\ cleanup'[p] = 0
                  \/ /\ fin'[p] = Append(fin[p], "held")
                     /\ cleanup'[p] = Len(fin[p]) + 1
          /\ ( /\ pc[p] = "defer" /\ pErr[p].origin = "resolver"
               /\ pc'[p] # "defer" ) =>
               /\ pc'[p] = "sendret"
               /\ cleanup[p] = 0 => fin'[p] = fin[p]
               /\ cleanup[p] # 0 =>
                    /\ cleanup[p] = Len(fin[p])
                    /\ fin[p][cleanup[p]] = "held"
                    /\ fin'[p] = [fin[p] EXCEPT ![cleanup[p]] = "nil"]]_vars
  /\ [](\A p \in Procs :
          (pErr[p].origin = "resolver" /\ pc[p] \in {"sendret", "done"}) =>
            \A h \in 1..Len(fin[p]) :
              fin[p][h] = IF h = cleanup[p] THEN "nil" ELSE "wie")

\* The second write-intent conflict of a call ended in a resolver error that
\* came with a handle: the first handle was finalized with the conflict, the
\* second at the exit with nil and nil.
C39_Witness ==
  /\ pc[1] = "done" /\ pErr[1].origin = "resolver"
  /\ fin[1] = <<"wie", "nil">> /\ cleanup[1] = 2

\* C40: limitTxnMaxTimestamp never raises MaxTimestamp; it leaves the batch
\* as it is when it has no transaction or the transaction has no observed
\* timestamp; otherwise the MaxTimestamp of the batch's transaction becomes
\* the smaller of the old MaxTimestamp and the bound, which is the observed
\* timestamp, forwarded to the lease's start when the lease is valid.
\* Nothing else of the transaction and nothing of the header changes.
C40_MaxTimestampIsMinOfBound ==
  [][(hpc = "entry" /\ hpc' = "limited") =>
       IF header.txn = 0
         THEN header' = header /\ txns' = txns
       ELSE IF txns[header.txn].obs = 0
         THEN header' = header /\ txns' = txns
       ELSE LET old == txns[header.txn]
                new == txns'[header'.txn]
                bound == IF leaseSt'.valid
                           THEN MaxOf(old.obs, leaseSt'.start)
                           ELSE old.obs
            IN /\ new.max = MinOf(old.max, bound)
               /\ new.max <= old.max
               /\ new.ts = old.ts /\ new.obs = old.obs
               /\ header'.ts = header.ts]_vars

\* Under a valid lease that started after the observed timestamp and before
\* MaxTimestamp, MaxTimestamp was lowered to the lease's start.
C40_Witness ==
  /\ hpc = "limited" /\ leaseSt.valid /\ header.txn = 2
  /\ txns[1].obs < leaseSt.start /\ leaseSt.start < txns[1].max
  /\ txns[2].max = leaseSt.start

=============================================================================
